---- MODULE Spec2Model ----
(***************************************************************************)
(* VIT GPA calculator (src/main_advanced.py, src/main.py).                 *)
(*                                                                         *)
(* Text cells are sequences of one-character strings, so that strip(),     *)
(* lower(), the regular-expression filter and the numeric and date parsers *)
(* are computed character by character.  A missing cell (None/NaN) is the  *)
(* value NaN.  Credit amounts are integers (exact arithmetic); a CGPA is   *)
(* the fraction [num, den] of the two sums the code divides.               *)
(***************************************************************************)
EXTENDS Integers, Sequences, FiniteSets, TLC

VARIABLES
    raw_df,         \* the extracted table: a sequence of rows of cells
    pc,             \* position in main(): "extracted", "cleaned", "failed", "menu",
                    \* "improve", "future", "exit", "crash"; in main.py's main():
                    \* "cleaned_main", "simulator_main"; "sim", "plan" for a lone call
    prepared,       \* clean_table_data: df before sort_values, [ok, dated, rows]
    deduped,        \* clean_table_data: df after sort_values and drop_duplicates
    clean_df,       \* clean_table_data's return value: [ok, dated, rows]
    current_cgpa,   \* print_analysis: calculate_current_cgpa(clean_df)
    original_dist,  \* print_analysis: get_grade_distribution(clean_df)
    call,           \* the last simulator or planner call: its arguments and its outcome
    heap,           \* main(): the dict objects alive, by identity
    env,            \* main(): the objects its names are bound to, and the two sums
    session         \* the interactive simulator running: its chain, its arguments,
                    \* and the kind of line the console showed last

vars == <<raw_df, pc, prepared, deduped, clean_df, current_cgpa, original_dist, call,
          heap, env, session>>

menu_vars == <<heap, env, session>>

------------------------------------------------------------------------------
(* Bounds of the model *)

MaxRows == 3        \* data rows of a table
MaxChanges == 2     \* operations of one simulator batch
MaxCredits == 2     \* largest credit total of one grade in an input distribution
MaxGroups == 2      \* courses or groups of one planning call
MaxChain == 2       \* entries of the pending chain of an interactive simulator

------------------------------------------------------------------------------
(* Strings *)

NaN == <<"NaN">>
Whitespace == {" "}
Digits == <<"0", "1", "2", "3", "4", "5", "6", "7", "8", "9">>
Upper == <<"A", "B", "C", "D", "E", "F", "G", "H", "I", "J", "K", "L", "M",
           "N", "O", "P", "Q", "R", "S", "T", "U", "V", "W", "X", "Y", "Z">>
Lower == <<"a", "b", "c", "d", "e", "f", "g", "h", "i", "j", "k", "l", "m",
           "n", "o", "p", "q", "r", "s", "t", "u", "v", "w", "x", "y", "z">>

Range(s) == {s[i] : i \in DOMAIN s}
IsIn(x, s) == \E i \in DOMAIN s : s[i] = x
IsDigit(c) == IsIn(c, Digits)
DigitVal(c) == (CHOOSE i \in DOMAIN Digits : Digits[i] = c) - 1

\* str(val): a missing cell prints as "nan"
str(val) == IF val = NaN THEN <<"n", "a", "n">> ELSE val

RECURSIVE lstrip(_)
lstrip(s) == IF s # <<>> /\ Head(s) \in Whitespace THEN lstrip(Tail(s)) ELSE s

RECURSIVE rstrip(_)
rstrip(s) ==
    IF s # <<>> /\ s[Len(s)] \in Whitespace THEN rstrip(SubSeq(s, 1, Len(s) - 1)) ELSE s

strip(s) == rstrip(lstrip(s))

lower(s) ==
    [i \in DOMAIN s |->
        IF IsIn(s[i], Upper) THEN Lower[CHOOSE k \in DOMAIN Upper : Upper[k] = s[i]]
        ELSE s[i]]

\* lowercase, then re.sub(r'[^a-z0-9]', '', title)
normalize_course_title(title) ==
    SelectSeq(lower(str(title)), LAMBDA c : IsIn(c, Lower) \/ IsDigit(c))

\* the value of a run of digits
RECURSIVE DigitsVal(_)
DigitsVal(s) ==
    IF s = <<>> THEN 0 ELSE 10 * DigitsVal(SubSeq(s, 1, Len(s) - 1)) + DigitVal(s[Len(s)])

RECURSIVE Pow10(_)
Pow10(n) == IF n = 0 THEN 1 ELSE 10 * Pow10(n - 1)

\* pd.to_numeric(errors="coerce") of one cell, for cells made of a sign, digits
\* and a decimal point ("4", "-2", "3.5", "4.", ".5"); every other text the model
\* draws ("", "N/A") is coerced to NaN.  The float is the fraction num/den.
to_numeric(cell) ==
    LET signed == cell # <<>> /\ Head(cell) \in {"-", "+"}
        neg == cell # <<>> /\ Head(cell) = "-"
        body == IF signed THEN Tail(cell) ELSE cell
        dots == {i \in DOMAIN body : body[i] = "."}
        dot == IF dots = {} THEN Len(body) + 1 ELSE CHOOSE i \in dots : TRUE
        ip == SubSeq(body, 1, dot - 1)
        fp == SubSeq(body, dot + 1, Len(body))
        wellformed == /\ Cardinality(dots) <= 1
                      /\ \A i \in DOMAIN ip : IsDigit(ip[i])
                      /\ \A i \in DOMAIN fp : IsDigit(fp[i])
                      /\ Len(ip) + Len(fp) >= 1
    IN  IF ~wellformed THEN [nan |-> TRUE, num |-> 0, den |-> 1]
        ELSE [nan |-> FALSE,
              num |-> (IF neg THEN -1 ELSE 1) * (DigitsVal(ip) * Pow10(Len(fp)) + DigitsVal(fp)),
              den |-> Pow10(Len(fp))]

\* Series.astype(int): truncation towards zero
astype_int(x) == IF x.num >= 0 THEN x.num \div x.den ELSE -((-x.num) \div x.den)

\* the Date cells of the model that no parser reads as a date
NotDates == {<<"T", "B", "A">>}

\* a cell of the shape dd-mm-yyyy, the only shape of date the model draws
Shaped(cell) ==
    /\ Len(cell) = 10
    /\ cell[3] = "-" /\ cell[6] = "-"
    /\ \A i \in {1, 2, 4, 5, 7, 8, 9, 10} : IsDigit(cell[i])

NaT == [nat |-> TRUE, day |-> 0]

days_in_month(month, year) ==
    IF month = 2
    THEN (IF year % 4 = 0 /\ (year % 100 # 0 \/ year % 400 = 0) THEN 29 ELSE 28)
    ELSE IF month \in {4, 6, 9, 11} THEN 30 ELSE 31

\* Timestamp(year, month, day) of datetime64[ns]: a date of the calendar between
\* Timestamp.min (1677-09-21) and Timestamp.max (2262-04-11), else NaT under
\* errors="coerce".  The timestamp is a day count that orders dates as the
\* calendar does.
Timestamp(year, month, day) ==
    LET count == (year * 12 + month) * 31 + day
    IN  IF /\ month \in 1..12
           /\ day \in 1..days_in_month(month, year)
           /\ count >= (1677 * 12 + 9) * 31 + 22
           /\ count <= (2262 * 12 + 4) * 31 + 11
        THEN [nat |-> FALSE, day |-> count]
        ELSE NaT

\* whether the two numbers of a cell a-b-yyyy are read day first.  dayfirst is
\* a preference: under dayfirst=True a cell whose second number cannot be a
\* month and whose first can (01-13-2024) is read month first, and under
\* dayfirst=False (the default) a cell whose first number cannot be a month
\* (13-01-2024) is read day first
day_first(cell, dayfirst) ==
    LET a == DigitsVal(SubSeq(cell, 1, 2))
        b == DigitsVal(SubSeq(cell, 4, 5))
    IN  a > 12 \/ (b <= 12 /\ dayfirst)

\* one cell read with a given order of day and month
strptime(cell, day_then_month) ==
    LET a == DigitsVal(SubSeq(cell, 1, 2))
        b == DigitsVal(SubSeq(cell, 4, 5))
        year == DigitsVal(SubSeq(cell, 7, 10))
    IN  IF ~Shaped(cell) THEN NaT
        ELSE IF day_then_month THEN Timestamp(year, b, a) ELSE Timestamp(year, a, b)

\* one cell parsed by itself
parse_datetime_string(cell, dayfirst) ==
    CASE cell \in NotDates -> NaT
      [] Shaped(cell) -> strptime(cell, day_first(cell, dayfirst))

\* pd.to_datetime(column, errors="coerce", dayfirst=dayfirst) for columns whose
\* cells are of the shape dd-mm-yyyy or in NotDates; main_advanced.py passes
\* dayfirst=True, main.py leaves the default, False.  pandas 1 parses each cell
\* by itself; pandas 2 guesses one format from the first cell and reads every
\* cell with it (format_inferred), and parses cell by cell when the first cell
\* gives no format.  The repository pins no version.
to_datetime(cells, dayfirst, format_inferred) ==
    LET guessed == /\ format_inferred
                   /\ cells # <<>>
                   /\ ~parse_datetime_string(cells[1], dayfirst).nat
    IN  [i \in DOMAIN cells |->
            IF guessed
            THEN (IF cells[i] \in NotDates THEN NaT
                  ELSE strptime(cells[i], day_first(cells[1], dayfirst)))
            ELSE parse_datetime_string(cells[i], dayfirst)]

s_CourseCode == <<"C", "o", "u", "r", "s", "e", " ", "C", "o", "d", "e">>
s_CourseTitle == <<"C", "o", "u", "r", "s", "e", " ", "T", "i", "t", "l", "e">>
s_Credits == <<"C", "r", "e", "d", "i", "t", "s">>
s_Grade == <<"G", "r", "a", "d", "e">>
s_Date == <<"D", "a", "t", "e">>
s_ResultDeclaredOn == <<"R", "e", "s", "u", "l", "t", " ", "D", "e", "c", "l", "a", "r",
                        "e", "d", " ", "O", "n">>

------------------------------------------------------------------------------
(* CGPACalculator *)

\* CGPACalculator.__init__: self.grade_points
grade_points == [S |-> 10, A |-> 9, B |-> 8, C |-> 7, D |-> 6, E |-> 5, F |-> 0]

\* the grades clean_table_data keeps
valid_grades == {"S", "A", "B", "C", "D", "E", "F", "P"}

Min(S) == CHOOSE x \in S : \A y \in S : x <= y

row_values(row) == [j \in DOMAIN row |-> strip(str(row[j]))]

\* a slip in the scan: no break, so the last row holding both labels wins
header_row_index_last(df) ==
    LET hits == {i \in DOMAIN df :
                    IsIn(s_CourseCode, row_values(df[i])) /\ IsIn(s_Grade, row_values(df[i]))}
    IN  IF hits = {} THEN 0 ELSE CHOOSE i \in hits : \A k \in hits : k <= i

\* clean_table_data: the index (from 1) of the first row holding both labels, 0 for None
header_row_index(df) ==
    LET hits == {i \in DOMAIN df :
                    IsIn(s_CourseCode, row_values(df[i])) /\ IsIn(s_Grade, row_values(df[i]))}
    IN  IF hits = {} THEN 0 ELSE Min(hits)

\* the column a label names (df[label])
column(headers, label) == Min({j \in DOMAIN headers : headers[j] = label})

\* clean_table_data of main_advanced.py: the date column, <<>> for None
date_column(headers) ==
    IF IsIn(s_Date, headers) THEN s_Date
    ELSE IF IsIn(s_ResultDeclaredOn, headers) THEN s_ResultDeclaredOn
    ELSE <<>>

\* clean_table_data of main.py: "Date" is the one date label of columns_to_keep
date_column_main(headers) == IF IsIn(s_Date, headers) THEN s_Date ELSE <<>>

\* df = df[columns_to_keep] on the rows below the header; a frame without the
\* date column has no Date cells
select_columns(df, h, date_col) ==
    LET headers == row_values(df[h])
        body == SubSeq(df, h + 1, Len(df))
    IN  [i \in DOMAIN body |->
            [Course_Code |-> body[i][column(headers, s_CourseCode)],
             Course_Title |-> body[i][column(headers, s_CourseTitle)],
             Credits |-> body[i][column(headers, s_Credits)],
             Grade |-> body[i][column(headers, s_Grade)],
             Date |-> IF date_col = <<>> THEN <<>> ELSE body[i][column(headers, date_col)]]]

\* df.dropna().reset_index(drop=True): rows with a missing cell go, the index restarts
dropna(rows) ==
    LET kept == SelectSeq(rows, LAMBDA r :
                    /\ r.Course_Code # NaN /\ r.Course_Title # NaN
                    /\ r.Credits # NaN /\ r.Grade # NaN /\ r.Date # NaN)
    IN  [i \in DOMAIN kept |->
            [index |-> i - 1,
             Course_Code |-> kept[i].Course_Code, Course_Title |-> kept[i].Course_Title,
             Credits |-> kept[i].Credits, Grade |-> kept[i].Grade, Date |-> kept[i].Date]]

\* to_numeric, dropna(subset=["Credits"]), astype(int), the stripped code and
\* title and the normalized title
coerce_credits(rows) ==
    LET kept == SelectSeq(rows, LAMBDA r : ~to_numeric(r.Credits).nan)
    IN  [i \in DOMAIN kept |->
            [index |-> kept[i].index,
             Course_Code |-> strip(kept[i].Course_Code),
             Course_Title |-> kept[i].Course_Title,
             Credits |-> astype_int(to_numeric(kept[i].Credits)),
             Grade |-> kept[i].Grade,
             Date |-> kept[i].Date,
             display_title |-> strip(kept[i].Course_Title),
             normalized_title |-> normalize_course_title(kept[i].Course_Title)]]

WithDate(r, d) ==
    [index |-> r.index, Course_Code |-> r.Course_Code, Course_Title |-> r.Course_Title,
     Credits |-> r.Credits, Grade |-> r.Grade, Date |-> d,
     display_title |-> r.display_title, normalized_title |-> r.normalized_title]

\* df[date_col] = pd.to_datetime(df[date_col], errors="coerce", dayfirst=...):
\* every row keeps its place, a date that cannot be read is NaT
assign_dates(rows, dayfirst, format_inferred) ==
    LET parsed == to_datetime([i \in DOMAIN rows |-> rows[i].Date], dayfirst, format_inferred)
    IN  [i \in DOMAIN rows |-> WithDate(rows[i], parsed[i])]

\* main_advanced.py: the date column parsed day first, then
\* df.dropna(subset=[date_col]): rows with an unparsable date dropped
parse_dates(rows, format_inferred) ==
    SelectSeq(assign_dates(rows, TRUE, format_inferred), LAMBDA r : ~r.Date.nat)

\* pd.date_range(end="today", periods=len(df), freq="D"): the k-th row gets the
\* day len(df) - k days before today (days are counted from today = 0)
date_range(rows) ==
    [k \in DOMAIN rows |-> WithDate(rows[k], [nat |-> FALSE, day |-> k - Len(rows)])]

\* clean_table_data returns None after an exception
NoFrame == [ok |-> FALSE, dated |-> FALSE, rows |-> <<>>]

\* clean_table_data of main_advanced.py up to the sort: [ok, dated, rows]
prepare(df, format_inferred) ==
    LET h == header_row_index(df)
        headers == row_values(df[h])
        date_col == date_column(headers)
        coerced == coerce_credits(dropna(select_columns(df, h, date_col)))
    IN  IF h = 0 THEN NoFrame        \* ValueError("Headers not found")
        ELSE IF ~(IsIn(s_CourseTitle, headers) /\ IsIn(s_Credits, headers))
        THEN NoFrame                 \* KeyError from df[columns_to_keep]
        ELSE [ok |-> TRUE,
              dated |-> date_col # <<>>,
              rows |-> IF date_col # <<>> THEN parse_dates(coerced, format_inferred) ELSE date_range(coerced)]

\* clean_table_data of main.py up to the sort: [ok, dated, rows].  The columns
\* kept are those of columns_to_keep the header has, the dates are read with
\* the default dayfirst=False, and a row whose date is NaT stays
prepare_main(df, format_inferred) ==
    LET h == header_row_index(df)
        headers == row_values(df[h])
        date_col == date_column_main(headers)
        coerced == coerce_credits(dropna(select_columns(df, h, date_col)))
    IN  IF h = 0 THEN NoFrame        \* ValueError("Headers not found")
        ELSE IF ~(IsIn(s_CourseTitle, headers) /\ IsIn(s_Credits, headers))
        THEN NoFrame                 \* KeyError from df['Credits'], df['Course Title']
        ELSE [ok |-> TRUE,
              dated |-> date_col # <<>>,
              rows |-> IF date_col # <<>> THEN assign_dates(coerced, FALSE, format_inferred) ELSE date_range(coerced)]

\* df.sort_values(by=sort_col, ascending=False): the default sort is not stable,
\* so rows of equal date may come out in any order; the rows whose date is NaT
\* come last (na_position="last"), in the order they had
sort_values_descending(rows) ==
    LET n == Len(rows)
        perms == {p \in [1..n -> 1..n] : \A i, j \in 1..n : i # j => p[i] # p[j]}
        inorder(a, b) == IF b.Date.nat THEN a.Date.nat => a.index < b.index
                         ELSE ~a.Date.nat /\ a.Date.day >= b.Date.day
    IN  {[i \in 1..n |-> rows[p[i]]] : p \in
            {q \in perms : \A i, j \in 1..n : i < j => inorder(rows[q[i]], rows[q[j]])}}

\* a slip in the order of the two steps: the grades are filtered first, so the
\* first row of a title with a recognized grade is kept
drop_duplicates_of_graded(rows) ==
    LET graded == SelectSeq(rows, LAMBDA r : Len(r.Grade) = 1 /\ r.Grade[1] \in valid_grades)
        first(i) == \A k \in 1..(i - 1) : graded[k].normalized_title # graded[i].normalized_title
    IN  SelectSeq(graded, LAMBDA r : \E i \in DOMAIN graded : graded[i] = r /\ first(i))

\* df.drop_duplicates(subset="normalized_title", keep="first")
drop_duplicates_keep_first(rows) ==
    LET first(i) == \A k \in 1..(i - 1) : rows[k].normalized_title # rows[i].normalized_title
        keep == {i \in DOMAIN rows : first(i)}
        RECURSIVE pick(_)
        pick(i) == IF i > Len(rows) THEN <<>>
                   ELSE (IF i \in keep THEN <<rows[i]>> ELSE <<>>) \o pick(i + 1)
    IN  pick(1)

\* df[df["Grade"].isin([...])], rename, drop(columns=["normalized_title"])
filter_grades(rows) ==
    LET kept == SelectSeq(rows, LAMBDA r : Len(r.Grade) = 1 /\ r.Grade[1] \in valid_grades)
    IN  [i \in DOMAIN kept |->
            [index |-> kept[i].index,
             course_code |-> kept[i].Course_Code,
             Course_Title |-> kept[i].Course_Title,
             course |-> kept[i].display_title,
             credits |-> kept[i].Credits,
             grade |-> kept[i].Grade[1],
             Date |-> kept[i].Date]]

RECURSIVE SumSeq(_)
SumSeq(s) == IF s = <<>> THEN 0 ELSE Head(s) + SumSeq(Tail(s))

\* total_points / total_credits if total_credits > 0 else 0.0, as a fraction
divide_or_zero(total_points, total_credits) ==
    IF total_credits > 0 THEN [num |-> total_points, den |-> total_credits]
    ELSE [num |-> 0, den |-> 1]

\* calculate_current_cgpa(df)
calculate_current_cgpa(df) ==
    LET df_calc == SelectSeq(df, LAMBDA r : r.grade # "P")
        total_credits == SumSeq([i \in DOMAIN df_calc |-> df_calc[i].credits])
        total_points == SumSeq([i \in DOMAIN df_calc |->
                                    df_calc[i].credits * grade_points[df_calc[i].grade]])
    IN  divide_or_zero(total_points, total_credits)

\* df[df["grade"] == grade]["credits"].sum()
credits_of_grade(df, grade) ==
    LET rows == SelectSeq(df, LAMBDA r : r.grade = grade)
    IN  SumSeq([i \in DOMAIN rows |-> rows[i].credits])

\* a slip in the loop: every grade the cleaning keeps, P among them
distribution_grades_with_P == valid_grades

\* the grades get_grade_distribution loops over: for grade in self.grade_points
distribution_grades == DOMAIN grade_points

\* if credits > 0: distribution[grade] = credits
distribution_keeps(credits) == credits > 0

\* get_grade_distribution(df): a dict, as a function on its keys
get_grade_distribution(df) ==
    [grade \in {g \in distribution_grades : distribution_keeps(credits_of_grade(df, g))} |->
        credits_of_grade(df, grade)]

------------------------------------------------------------------------------
(* Dictionaries and the simulators *)

\* d.get(k, default)
dict_get(d, k, default) == IF k \in DOMAIN d THEN d[k] ELSE default

\* d[k] = v
dict_set(d, k, v) == [x \in DOMAIN d \cup {k} |-> IF x = k THEN v ELSE d[x]]

\* sum(distribution.values())
SumValues(d) ==
    LET RECURSIVE sum(_)
        sum(K) == IF K = {} THEN 0
                  ELSE LET k == CHOOSE x \in K : TRUE IN d[k] + sum(K \ {k})
    IN  sum(DOMAIN d)

\* sum(credits * self.grade_points[grade] for grade, credits in distribution.items())
SumPoints(d) ==
    LET RECURSIVE sum(_)
        sum(K) == IF K = {} THEN 0
                  ELSE LET k == CHOOSE x \in K : TRUE IN d[k] * grade_points[k] + sum(K \ {k})
    IN  sum(DOMAIN d)

\* calculate_cgpa_from_distribution(distribution)
calculate_cgpa_from_distribution(distribution) ==
    divide_or_zero(SumPoints(distribution), SumValues(distribution))

Raised(e, d) == [exc |-> e, new_distribution |-> d]

\* a slip in the credit line: new_distribution[to_grade] = credits
improve_credit_overwrites(new_distribution, to_grade, credits) ==
    dict_set(new_distribution, to_grade, credits)

\* new_distribution[to_grade] = new_distribution.get(to_grade, 0) + credits
improve_credit(new_distribution, to_grade, credits) ==
    dict_set(new_distribution, to_grade, dict_get(new_distribution, to_grade, 0) + credits)

\* main_advanced.py, simulate_improvement: one pass of the loop body on
\* new_distribution, change = <<from_grade, to_grade, credits>>
apply_change(new_distribution, change) ==
    LET from_grade == change[1]
        to_grade == change[2]
        credits == change[3]
    IN  IF from_grade \notin DOMAIN grade_points \/ to_grade \notin DOMAIN grade_points
        THEN Raised("ValueError", new_distribution)
        ELSE IF credits > dict_get(new_distribution, from_grade, 0)
        THEN Raised("ValueError", new_distribution)
        ELSE IF from_grade \notin DOMAIN new_distribution   \* new_distribution[from_grade] -= credits
        THEN Raised("KeyError", new_distribution)
        ELSE Raised("None",
                    improve_credit([new_distribution EXCEPT ![from_grade] = @ - credits],
                                   to_grade, credits))

\* main.py, simulate_improvement: one pass of the loop body
apply_change_main(new_distribution, change) ==
    LET from_grade == change[1]
        to_grade == change[2]
        credits == change[3]
    IN  IF from_grade \notin DOMAIN grade_points \/ to_grade \notin DOMAIN grade_points
        THEN Raised("ValueError", new_distribution)
        ELSE IF credits <= 0
        THEN Raised("ValueError", new_distribution)
        ELSE IF credits > dict_get(new_distribution, from_grade, 0)
        THEN Raised("ValueError", new_distribution)
        ELSE Raised("None",
                    improve_credit(dict_set(new_distribution, from_grade,
                                            dict_get(new_distribution, from_grade, 0) - credits),
                                   to_grade, credits))

\* main_advanced.py, simulate_future_courses: one pass of the loop body,
\* change = <<grade, credits>>
apply_future(new_distribution, change) ==
    LET grade == change[1]
        credits == change[2]
    IN  IF grade \notin DOMAIN grade_points
        THEN Raised("ValueError", new_distribution)
        ELSE Raised("None",
                    dict_set(new_distribution, grade,
                             dict_get(new_distribution, grade, 0) + credits))

\* the loop body of the simulator fn
loop_body(fn, new_distribution, change) ==
    CASE fn = "simulate_improvement" -> apply_change(new_distribution, change)
      [] fn = "simulate_improvement_main" -> apply_change_main(new_distribution, change)
      [] fn = "simulate_future_courses" -> apply_future(new_distribution, change)

\* a slip in the loop: for change in reversed(changes)
RECURSIVE for_each_reversed(_, _, _)
for_each_reversed(fn, new_distribution, changes) ==
    IF changes = <<>> THEN Raised("None", new_distribution)
    ELSE LET r == loop_body(fn, new_distribution, changes[Len(changes)])
         IN  IF r.exc # "None" THEN r
             ELSE for_each_reversed(fn, r.new_distribution,
                                    SubSeq(changes, 1, Len(changes) - 1))

\* for change in changes: the loop body on new_distribution, stopping at the first raise
RECURSIVE for_each(_, _, _)
for_each(fn, new_distribution, changes) ==
    IF changes = <<>> THEN Raised("None", new_distribution)
    ELSE LET r == loop_body(fn, new_distribution, Head(changes))
         IN  IF r.exc # "None" THEN r ELSE for_each(fn, r.new_distribution, Tail(changes))

\* distribution.copy(): a new dict with the same items
dict_copy(d) == d

\* a slip in the simulators: no .copy(), the loop writes to the caller's dict
Outcome_in_place(r, value, distribution) ==
    [exc |-> r.exc,
     ret |-> IF r.exc = "None" THEN value ELSE <<>>,
     distribution |-> r.new_distribution]

\* what a simulator call leaves behind: the exception raised ("None" for a
\* return), the value returned (<<>> when it raised) and the caller's
\* distribution object after the call.  The loop writes to the copy only.
Outcome(r, value, distribution) ==
    [exc |-> r.exc,
     ret |-> IF r.exc = "None" THEN value ELSE <<>>,
     distribution |-> distribution]

\* main_advanced.py: simulate_improvement(distribution, changes)
simulate_improvement(distribution, changes) ==
    LET r == for_each("simulate_improvement", dict_copy(distribution), changes)
    IN  Outcome(r, r.new_distribution, distribution)

\* main.py: simulate_improvement(distribution, changes), which returns new_cgpa
simulate_improvement_main(distribution, changes) ==
    LET r == for_each("simulate_improvement_main", dict_copy(distribution), changes)
    IN  Outcome(r, calculate_cgpa_from_distribution(r.new_distribution), distribution)

\* main_advanced.py: simulate_future_courses(distribution, future_changes)
simulate_future_courses(distribution, future_changes) ==
    LET r == for_each("simulate_future_courses", dict_copy(distribution), future_changes)
    IN  Outcome(r, r.new_distribution, distribution)

\* simulate_and_print: for change in simulation_changes:
\*     new_distribution = self.simulate_improvement(new_distribution, [change])
RECURSIVE one_by_one(_, _)
one_by_one(new_distribution, simulation_changes) ==
    IF simulation_changes = <<>> THEN Raised("None", new_distribution)
    ELSE LET r == simulate_improvement(new_distribution, <<Head(simulation_changes)>>)
         IN  IF r.exc # "None" THEN Raised(r.exc, r.distribution)
             ELSE one_by_one(r.ret, Tail(simulation_changes))

\* main_advanced.py: simulate_and_print(original_distribution, simulation_changes,
\* original_cgpa), which returns (new_cgpa, new_distribution); original_cgpa is
\* only printed
simulate_and_print(original_distribution, simulation_changes, original_cgpa) ==
    LET r == one_by_one(dict_copy(original_distribution), simulation_changes)
    IN  Outcome(r, [new_cgpa |-> calculate_cgpa_from_distribution(r.new_distribution),
                    new_distribution |-> r.new_distribution],
                original_distribution)

------------------------------------------------------------------------------
(* The tables and the simulator arguments the model draws from *)

t_OS == <<"O", "S">>
t_os == <<"o", "s", " ">>
t_O_S == <<" ", "O", "-", "S">>
t_DB == <<"D", "B">>
t_PE == <<"P", "E">>
t_ML == <<"M", "L", "1">>
d_5Jan == <<"0", "5", "-", "0", "1", "-", "2", "0", "2", "4">>
d_13Jan == <<"1", "3", "-", "0", "1", "-", "2", "0", "2", "4">>
d_1May == <<"0", "1", "-", "0", "5", "-", "2", "0", "2", "4">>
d_2Feb == <<"0", "2", "-", "0", "2", "-", "2", "0", "2", "4">>
d_3Mar == <<"0", "3", "-", "0", "3", "-", "2", "0", "2", "4">>
d_TBA == <<"T", "B", "A">>

Row(code, title, credits, grade, date) ==
    [code |-> code, title |-> title, credits |-> credits, grade |-> grade, date |-> date]

RowPool ==
    << Row(<<" ", "C", "1">>, t_OS, <<"4">>, <<"B">>, d_5Jan),
       Row(<<"C", "1">>, t_os, <<"4">>, <<"A">>, d_1May),
       Row(<<"C", "2">>, t_DB, <<"3", ".", "5">>, <<"S">>, d_13Jan),
       Row(<<"C", "3">>, t_O_S, <<"0">>, <<"A">>, d_1May),
       Row(<<"C", "4">>, t_DB, <<"-", "2">>, <<"A">>, d_2Feb),
       Row(<<"C", "5">>, t_PE, <<"2">>, <<"P">>, d_2Feb),
       Row(<<"C", "1">>, t_OS, <<"3">>, <<"W">>, d_3Mar),
       Row(<<"C", "6">>, t_ML, <<"N", "/", "A">>, <<"A">>, d_3Mar),
       Row(<<"C", "6">>, t_ML, <<"3">>, <<"F", " ">>, d_TBA),
       Row(<<"C", "7">>, NaN, <<"3">>, <<"F">>, d_2Feb) >>

h_Plain == <<<<"N", "o">>, s_CourseCode, s_CourseTitle, s_Credits, s_Grade>>
h_Date == <<s_CourseCode, s_CourseTitle, s_Credits, s_Grade, s_Date>>
h_Declared == <<s_Grade \o <<" ">>, s_Credits, <<" ">> \o s_CourseCode, s_CourseTitle,
                s_ResultDeclaredOn>>
h_NoCredits == <<s_CourseCode, s_CourseTitle, s_Grade>>
\* the header of a later page, with the code and the title columns swapped
h_Swapped == <<<<"N", "o">>, s_CourseTitle, s_CourseCode, s_Credits, s_Grade>>

\* the cell of a data row under a header label
CellFor(r, label) ==
    IF label = s_CourseCode THEN r.code
    ELSE IF label = s_CourseTitle THEN r.title
    ELSE IF label = s_Credits THEN r.credits
    ELSE IF label = s_Grade THEN r.grade
    ELSE IF label \in {s_Date, s_ResultDeclaredOn} THEN r.date
    ELSE <<"1">>

RawRow(r, header) == [j \in DOMAIN header |-> CellFor(r, strip(header[j]))]

\* a row above the header that reads like a course row
Stray == RawRow(Row(<<"C", "9">>, <<"X", "X">>, <<"4">>, <<"S">>, d_5Jan), h_Plain)

\* a row above the header: a caption that holds "Grade" but not "Course Code"
Caption == <<s_Grade, NaN, NaN, NaN, NaN>>

\* the rows of a table down to its header, and the layout of its data rows
TableHeads ==
    << [top |-> <<h_Plain>>, layout |-> h_Plain],
       [top |-> <<h_Date>>, layout |-> h_Date],
       [top |-> <<h_Declared>>, layout |-> h_Declared],
       [top |-> <<h_NoCredits>>, layout |-> h_NoCredits],
       [top |-> <<Caption, h_Plain>>, layout |-> h_Plain],
       [top |-> <<Caption>>, layout |-> h_Plain],
       [top |-> <<Stray, h_Plain>>, layout |-> h_Plain],
       [top |-> <<h_Plain, h_Swapped>>, layout |-> h_Plain] >>

\* the table under head number t with the pool's rows number pick[1], pick[2], ...
Table(t, pick) ==
    TableHeads[t].top \o [i \in DOMAIN pick |-> RawRow(RowPool[pick[i]], TableHeads[t].layout)]

SimKeys == {"A", "B"}
FromGrades == {"A", "B", "P"}
ToGrades == {"S", "A", "P"}
Amounts == {-1, 0, 1, 2}

Conversions == FromGrades \X ToGrades \X Amounts
Additions == ToGrades \X Amounts

\* the calls of the specification's example of a chained batch
ExampleCalls ==
    {[fn |-> "improvement?", distribution |-> [A |-> 10, B |-> 6], changes |-> c] :
        c \in {<<<<"B", "A", 4>>, <<"A", "S", 14>>>>, <<<<"B", "A", 4>>, <<"B", "A", 4>>>>}}

NoCall == [fn |-> "none"]
NoEnv == [original_dist |-> 0]
NoSession == [chain |-> <<>>]
NoCgpa == [num |-> 0, den |-> 1]

------------------------------------------------------------------------------
(* main(): the table is cleaned, then analysed *)

Init ==
    /\ \E t \in DOMAIN TableHeads, n \in 0..MaxRows :
            \E pick \in [1..n -> DOMAIN RowPool] : raw_df = Table(t, pick)
    /\ pc = "extracted"
    /\ prepared = NoFrame
    /\ deduped = <<>>
    /\ clean_df = NoFrame
    /\ current_cgpa = NoCgpa
    /\ original_dist = <<>>
    /\ call = NoCall
    /\ heap = <<>> /\ env = NoEnv /\ session = NoSession

\* clean_df = CGPACalculator().clean_table_data(raw_df); None ends main()
CleanTableData ==
    /\ pc = "extracted"
    /\ \E format_inferred \in BOOLEAN : prepared' = prepare(raw_df, format_inferred)
    /\ IF ~prepared'.ok
       THEN /\ pc' = "failed"
            /\ deduped' = <<>>
            /\ clean_df' = NoFrame
       ELSE /\ pc' = "cleaned"
            /\ \E sorted \in sort_values_descending(prepared'.rows) :
                    deduped' = drop_duplicates_keep_first(sorted)
            /\ clean_df' = [ok |-> TRUE, dated |-> prepared'.dated,
                            rows |-> filter_grades(deduped')]
    /\ UNCHANGED <<raw_df, current_cgpa, original_dist, call>>
    /\ UNCHANGED menu_vars

\* main.py: df = calculator.clean_table_data(raw_df); None ends main()
CleanTableDataMain ==
    /\ pc = "extracted"
    /\ \E format_inferred \in BOOLEAN : prepared' = prepare_main(raw_df, format_inferred)
    /\ IF ~prepared'.ok
       THEN /\ pc' = "failed"
            /\ deduped' = <<>>
            /\ clean_df' = NoFrame
       ELSE /\ pc' = "cleaned_main"
            /\ \E sorted \in sort_values_descending(prepared'.rows) :
                    deduped' = drop_duplicates_keep_first(sorted)
            /\ clean_df' = [ok |-> TRUE, dated |-> prepared'.dated,
                            rows |-> filter_grades(deduped')]
    /\ UNCHANGED <<raw_df, current_cgpa, original_dist, call>>
    /\ UNCHANGED menu_vars

\* the dict objects main() can hold at once: those its three names are bound
\* to and one just returned
Ids == 1..4

\* the objects main()'s names are bound to
Live(e) == {e.original_dist, e.improved_distribution, e.future_distribution}

\* the identity of a newly made dict
Fresh(e) == Min(Ids \ Live(e))

\* the heap without the objects no name is bound to
Collect(h, e) == [i \in Live(e) |-> h[i]]

\* no interactive simulator is running; said is the kind of line shown last
Idle(said) == [chain |-> <<>>, arg |-> 0, original_cgpa |-> NoCgpa, said |-> said]

\* df_calc["credits"].sum() and (df_calc["credits"] * grade points).sum()
ledger_sums(df) ==
    LET df_calc == SelectSeq(df, LAMBDA r : r.grade # "P")
    IN  [current_total_credits |-> SumSeq([i \in DOMAIN df_calc |-> df_calc[i].credits]),
         current_total_points |-> SumSeq([i \in DOMAIN df_calc |->
                                    df_calc[i].credits * grade_points[df_calc[i].grade]])]

\* current_cgpa, original_dist = calculator.print_analysis(clean_df), the two
\* sums, and the two copies of original_dist
PrintAnalysis ==
    /\ pc = "cleaned"
    /\ pc' = "menu"
    /\ current_cgpa' = calculate_current_cgpa(clean_df.rows)
    /\ original_dist' = get_grade_distribution(clean_df.rows)
    /\ heap' = [i \in 1..3 |-> IF i = 1 THEN original_dist' ELSE dict_copy(original_dist')]
    /\ env' = [original_dist |-> 1, improved_distribution |-> 2, future_distribution |-> 3,
               current_total_credits |-> ledger_sums(clean_df.rows).current_total_credits,
               current_total_points |-> ledger_sums(clean_df.rows).current_total_points]
    /\ session' = Idle("instructions")
    /\ UNCHANGED <<raw_df, prepared, deduped, clean_df, call>>

\* main.py: current_cgpa, distribution = calculator.print_analysis(df), before
\* the simulator's menu; original_dist holds the distribution
PrintAnalysisMain ==
    /\ pc = "cleaned_main"
    /\ pc' = "simulator_main"
    /\ current_cgpa' = calculate_current_cgpa(clean_df.rows)
    /\ original_dist' = get_grade_distribution(clean_df.rows)
    /\ UNCHANGED <<raw_df, prepared, deduped, clean_df, call>>
    /\ UNCHANGED menu_vars

Next == CleanTableData \/ PrintAnalysis \/ CleanTableDataMain \/ PrintAnalysisMain

Spec == Init /\ [][Next]_vars

------------------------------------------------------------------------------
(* The simulators as functions of their arguments *)

InitSim ==
    /\ raw_df = <<>>
    /\ pc = "sim"
    /\ prepared = NoFrame
    /\ deduped = <<>>
    /\ clean_df = NoFrame
    /\ current_cgpa = NoCgpa
    /\ original_dist = <<>>
    /\ heap = <<>> /\ env = NoEnv /\ session = NoSession
    /\ \/ \E K \in SUBSET SimKeys, n \in 0..MaxChanges :
            \E d \in [K -> 0..MaxCredits] :
                \/ \E c \in [1..n -> Conversions] :
                        call = [fn |-> "improvement?", distribution |-> d, changes |-> c]
                \/ \E c \in [1..n -> Additions] :
                        call = [fn |-> "future?", distribution |-> d, changes |-> c]
       \/ call \in ExampleCalls

Called(fn, result) ==
    /\ call' = [fn |-> fn, distribution |-> call.distribution, changes |-> call.changes,
                result |-> result]
    /\ UNCHANGED <<raw_df, pc, prepared, deduped, clean_df, current_cgpa, original_dist>>
    /\ UNCHANGED menu_vars

SimulateImprovement ==
    /\ call.fn = "improvement?"
    /\ Called("simulate_improvement", simulate_improvement(call.distribution, call.changes))

SimulateImprovementMain ==
    /\ call.fn = "improvement?"
    /\ Called("simulate_improvement_main",
              simulate_improvement_main(call.distribution, call.changes))

SimulateFutureCourses ==
    /\ call.fn = "future?"
    /\ Called("simulate_future_courses",
              simulate_future_courses(call.distribution, call.changes))

SimulateAndPrint ==
    /\ call.fn = "improvement?"
    /\ Called("simulate_and_print",
              simulate_and_print(call.distribution, call.changes,
                                 calculate_cgpa_from_distribution(call.distribution)))

NextSim ==
    SimulateImprovement \/ SimulateImprovementMain \/ SimulateFutureCourses
        \/ SimulateAndPrint

SpecSim == InitSim /\ [][NextSim]_vars

------------------------------------------------------------------------------
(* Numbers typed at the console, and float arithmetic *)

upper(s) ==
    [i \in DOMAIN s |->
        IF IsIn(s[i], Lower) THEN Upper[CHOOSE k \in DOMAIN Lower : Lower[k] = s[i]]
        ELSE s[i]]

(* CHOOSE v \in {e : x \in {a}} : TRUE is e with x standing for the
   value of a: a is computed once, however often e uses it. *)

(* Natural numbers of any size, for the 53-bit mantissas of floats: the limbs
   of base 2^15, the least first, the last not 0; <<>> is 0 *)

Base == 2^15

RECURSIVE BNorm(_)
BNorm(a) == IF a # <<>> /\ a[Len(a)] = 0 THEN BNorm(SubSeq(a, 1, Len(a) - 1)) ELSE a

RECURSIVE BInt(_)
BInt(n) == IF n = 0 THEN <<>> ELSE <<n % Base>> \o BInt(n \div Base)

\* -1, 0, 1 as a < b, a = b, a > b
BCmp(a, b) ==
    LET RECURSIVE from(_)
        from(i) == IF i = 0 THEN 0
                   ELSE IF a[i] < b[i] THEN -1
                   ELSE IF a[i] > b[i] THEN 1
                   ELSE from(i - 1)
    IN  IF Len(a) < Len(b) THEN -1
        ELSE IF Len(a) > Len(b) THEN 1
        ELSE from(Len(a))

BAdd(a, b) ==
    LET RECURSIVE from(_, _)
        from(i, carry) ==
            IF i > Len(a) /\ i > Len(b)
            THEN (IF carry = 0 THEN <<>> ELSE <<carry>>)
            ELSE LET t == (IF i <= Len(a) THEN a[i] ELSE 0) + (IF i <= Len(b) THEN b[i] ELSE 0)
                          + carry
                 IN  <<t % Base>> \o from(i + 1, t \div Base)
    IN  from(1, 0)

\* a - b for a >= b
BSub(a, b) ==
    LET RECURSIVE from(_, _)
        from(i, borrow) ==
            IF i > Len(a) THEN <<>>
            ELSE LET t == a[i] - (IF i <= Len(b) THEN b[i] ELSE 0) - borrow
                 IN  <<IF t < 0 THEN t + Base ELSE t>> \o from(i + 1, IF t < 0 THEN 1 ELSE 0)
    IN  BNorm(from(1, 0))

\* a * k for 0 <= k < Base
BMulSmall(a, k) ==
    LET RECURSIVE from(_, _)
        from(i, carry) ==
            IF i > Len(a) THEN (IF carry = 0 THEN <<>> ELSE <<carry>>)
            ELSE LET t == a[i] * k + carry
                 IN  <<t % Base>> \o from(i + 1, t \div Base)
    IN  IF k = 0 THEN <<>> ELSE from(1, 0)

BShlLimbs(a, n) == IF a = <<>> THEN <<>> ELSE [i \in 1..n |-> 0] \o a

BMul(a, b) ==
    LET RECURSIVE from(_)
        from(i) == IF i > Len(b) THEN <<>>
                   ELSE BAdd(BShlLimbs(BMulSmall(a, b[i]), i - 1), from(i + 1))
    IN  from(1)

\* a * 2^bits
BShl(a, bits) == BShlLimbs(BMulSmall(a, 2^(bits % 15)), bits \div 15)

\* a \div k for 0 < k < Base, from the top limb down
BDivSmall(a, k) ==
    LET RECURSIVE from(_, _)
        from(i, rem) ==
            IF i = 0 THEN <<>>
            ELSE LET t == rem * Base + a[i]
                 IN  from(i - 1, t % k) \o <<t \div k>>
    IN  BNorm(from(Len(a), 0))

\* a \div 2^bits
BShr(a, bits) ==
    IF bits \div 15 >= Len(a) THEN <<>>
    ELSE BDivSmall(SubSeq(a, (bits \div 15) + 1, Len(a)), 2^(bits % 15))

\* the number of bits of 0 <= x < Base
BitLen(x) == IF x = 0 THEN 0 ELSE CHOOSE k \in 1..15 : 2^(k - 1) <= x /\ x < 2^k

BBitLen(a) == IF a = <<>> THEN 0 ELSE 15 * (Len(a) - 1) + BitLen(a[Len(a)])

\* the number of 0 bits below the lowest 1 bit of a # 0
RECURSIVE BTrailing(_)
BTrailing(a) ==
    IF a[1] = 0 THEN 15 + BTrailing(Tail(a))
    ELSE CHOOSE k \in 0..14 : a[1] % 2^k = 0 /\ (a[1] \div 2^k) % 2 = 1

\* the largest q with q * d <= r, for d whose top limb is at least Base/2 and
\* r < Base * d: the estimate from the top limbs is at most 2 too large
BDigit(r, d) ==
    LET RECURSIVE down(_)
        down(q) == IF BCmp(BMulSmall(d, q), r) > 0 THEN down(q - 1) ELSE q
        top == IF Len(r) > Len(d) THEN r[Len(r)] * Base + r[Len(r) - 1] ELSE r[Len(r)]
        est == top \div d[Len(d)]
    IN  IF BCmp(r, d) < 0 THEN 0
        ELSE down(IF est > Base - 1 THEN Base - 1 ELSE est)

\* long division of the limbs n[1..i] after the remainder r: [q, r]
RECURSIVE BDivFrom(_, _, _, _)
BDivFrom(n, d, i, r) ==
    IF i = 0 THEN [q |-> <<>>, r |-> r]
    ELSE LET cur == BNorm(<<n[i]>> \o r)
             digit == BDigit(cur, d)
             left == BSub(cur, BMulSmall(d, digit))
             rest == BDivFrom(n, d, i - 1, left)
         IN  IF BCmp(left, d) < 0 THEN [q |-> rest.q \o <<digit>>, r |-> rest.r]
             ELSE [q |-> <<>>, r |-> left]   \* never: the remainder is below d

\* [q, exact]: q = n \div d and whether d divides n, for d # 0
BDiv(n, d) ==
    CHOOSE quot \in
        {[q |-> BNorm(res.q), exact |-> res.r = <<>>]
         : res \in {BDivFrom(BShl(n, 15 - BitLen(d[Len(d)])), BShl(d, 15 - BitLen(d[Len(d)])),
                             Len(BShl(n, 15 - BitLen(d[Len(d)]))), <<>>)}} : TRUE

\* 10^n, by squaring
RECURSIVE BPow10(_)
BPow10(n) ==
    IF n = 0 THEN <<1>>
    ELSE IF n % 2 = 1 THEN BMulSmall(BPow10(n - 1), 10)
    ELSE BMul(BPow10(n \div 2), BPow10(n \div 2))

(* binary64: a finite float is (-1)^neg * m * 2^e with m odd, or m = 0 and e = 0 *)

Zero(neg) == [kind |-> "num", neg |-> neg, m |-> <<>>, e |-> 0]
Inf == [kind |-> "inf", neg |-> FALSE, m |-> <<>>, e |-> 0]
NegInf == [kind |-> "inf", neg |-> TRUE, m |-> <<>>, e |-> 0]
NotANumber == [kind |-> "nan", neg |-> FALSE, m |-> <<>>, e |-> 0]

Float(neg, m, e) ==
    IF m = <<>> THEN Zero(neg)
    ELSE IF BBitLen(m) + e > 1024 THEN (IF neg THEN NegInf ELSE Inf)
    ELSE [kind |-> "num", neg |-> neg, m |-> BShr(m, BTrailing(m)), e |-> e + BTrailing(m)]

Max2(a, b) == IF a >= b THEN a ELSE b

\* the float nearest to (-1)^neg * quot * 2^x for a quotient [q, exact] of more
\* than 53 bits, or of an inexact division: the kept bits m = q \div 2^drop and
\* the dropped ones against one half, ties to the even m
round_kept(neg, quot, x, drop, m) ==
    Float(neg,
          IF /\ drop > 0
             /\ \/ BCmp(BSub(quot.q, BShl(m, drop)), BShl(<<1>>, drop - 1)) > 0
                \/ /\ BCmp(BSub(quot.q, BShl(m, drop)), BShl(<<1>>, drop - 1)) = 0
                   /\ ~quot.exact \/ (m # <<>> /\ m[1] % 2 = 1)
          THEN BAdd(m, <<1>>)
          ELSE m,
          x + drop)

\* 53 bits are kept, fewer below 2^-1022
round_quot(neg, quot, x) ==
    CHOOSE r \in {round_kept(neg, quot, x, drop, BShr(quot.q, drop))
                  : drop \in {Max2(Max2(BBitLen(quot.q) - 53, -1074 - x), 0)}} : TRUE

\* the float nearest to (-1)^neg * (n / d) * 2^x, ties to the even mantissa
Round(neg, n, d, x) ==
    IF n = <<>> THEN Zero(neg)
    ELSE IF d = <<1>> THEN round_quot(neg, [q |-> n, exact |-> TRUE], x)
    ELSE CHOOSE r \in {round_quot(neg, BDiv(BShl(n, k), d), x - k)
                       : k \in {Max2(0, 56 - (BBitLen(n) - BBitLen(d)))}} : TRUE

\* a float that is a whole number below 2^15, as the number
ToInt(x) == IF x.m = <<>> THEN 0 ELSE (IF x.neg THEN -1 ELSE 1) * x.m[1] * 2^x.e

\* an int as a float
FromInt(n) == Round(n < 0, BInt(IF n < 0 THEN -n ELSE n), <<1>>, 0)

\* digits with single underscores between them: "10", "1_0"
digitpart(s) ==
    /\ s # <<>>
    /\ \A i \in DOMAIN s : IsDigit(s[i]) \/ s[i] = "_"
    /\ s[1] # "_" /\ s[Len(s)] # "_"
    /\ \A i \in 1..(Len(s) - 1) : ~(s[i] = "_" /\ s[i + 1] = "_")

RECURSIVE nonzero_from(_)
nonzero_from(s) == IF s # <<>> /\ Head(s) = "0" THEN nonzero_from(Tail(s)) ELSE s

\* the value of a run of digits of any length, four digits at a time
RECURSIVE BDigits(_)
BDigits(s) ==
    IF Len(s) <= 4 THEN BInt(DigitsVal(s))
    ELSE BAdd(BMulSmall(BDigits(SubSeq(s, 1, Len(s) - 4)), 10^4),
              BInt(DigitsVal(SubSeq(s, Len(s) - 3, Len(s)))))

\* s without its sign
unsigned(s) == IF s # <<>> /\ s[1] \in {"+", "-"} THEN Tail(s) ELSE s

\* s up to its first c, and s after it
before(s, c) == SubSeq(s, 1, Min({i \in DOMAIN s : s[i] = c} \cup {Len(s) + 1}) - 1)
after(s, c) == SubSeq(s, Min({i \in DOMAIN s : s[i] = c} \cup {Len(s) + 1}) + 1, Len(s))

\* float(text): [ok, value]; ok is FALSE for the ValueError.  The text is
\* stripped; it is a sign and inf, infinity or nan in any case, or a sign, a
\* decimal number (digits, a point, underscores between digits) and an exponent,
\* and its value is the float nearest to the number written.
float(text) ==
    CHOOSE result \in
        {LET neg == s # <<>> /\ s[1] = "-"
             mant == before(unsigned(s), "e")
             expo == after(unsigned(s), "e")
             ip == before(mant, ".")
             fp == after(mant, ".")
             wellformed == /\ ip = <<>> \/ digitpart(ip)
                           /\ fp = <<>> \/ digitpart(fp)
                           /\ ip # <<>> \/ fp # <<>>
                           /\ mant = unsigned(s) \/ digitpart(unsigned(expo))
             written == nonzero_from(SelectSeq(expo, IsDigit))
             sig == nonzero_from(SelectSeq(mant, IsDigit))
         IN  IF unsigned(s) \in {<<"i", "n", "f">>, <<"i", "n", "f", "i", "n", "i", "t", "y">>}
             THEN [ok |-> TRUE, value |-> IF neg THEN NegInf ELSE Inf]
             ELSE IF unsigned(s) = <<"n", "a", "n">> THEN [ok |-> TRUE, value |-> NotANumber]
             ELSE IF ~wellformed THEN [ok |-> FALSE, value |-> NotANumber]
             ELSE CHOOSE parsed \in
                {[ok |-> TRUE,
                  value |->
                    IF sig = <<>> THEN Zero(neg)
                    ELSE IF Len(sig) + exponent > 400 THEN (IF neg THEN NegInf ELSE Inf)
                    ELSE IF Len(sig) + exponent < -400 THEN Zero(neg)
                    ELSE Round(neg,
                               BMul(BDigits(sig), BPow10(IF exponent > 0 THEN exponent ELSE 0)),
                               BPow10(IF exponent < 0 THEN -exponent ELSE 0), 0)]
                 : exponent \in {(IF expo # <<>> /\ expo[1] = "-" THEN -1 ELSE 1)
                                    * (IF Len(written) > 4 THEN 9999 ELSE DigitsVal(written))
                                 - Len(SelectSeq(fp, IsDigit))}} : TRUE
         : s \in {lower(strip(text))}} : TRUE

\* int(text): [ok, value]; the text is stripped; a sign and digits with
\* underscores between them, anything else is a ValueError
int(text) ==
    [ok |-> digitpart(unsigned(strip(text))),
     value |-> (IF strip(text) # <<>> /\ strip(text)[1] = "-" THEN -1 ELSE 1)
                    * DigitsVal(SelectSeq(strip(text), IsDigit))]

\* the exponent of the top bit of a finite x # 0, plus 1
Top(x) == BBitLen(x.m) + x.e

\* -1, 0, 1 as |x| < |y|, |x| = |y|, |x| > |y| for finite x and y
CmpAbs(x, y) ==
    LET e == IF x.e <= y.e THEN x.e ELSE y.e
    IN  IF x.m = <<>> \/ y.m = <<>> THEN BCmp(x.m, y.m)
        ELSE IF Top(x) < Top(y) THEN -1
        ELSE IF Top(x) > Top(y) THEN 1
        ELSE BCmp(BShl(x.m, x.e - e), BShl(y.m, y.e - e))

\* x + y
add(x, y) ==
    IF x.kind = "nan" \/ y.kind = "nan" THEN NotANumber
    ELSE IF x.kind = "inf" /\ y.kind = "inf" THEN (IF x.neg = y.neg THEN x ELSE NotANumber)
    ELSE IF x.kind = "inf" THEN x
    ELSE IF y.kind = "inf" THEN y
    ELSE IF y.m # <<>> /\ x.m # <<>> /\ Top(x) - Top(y) > 64 THEN x   \* y is below the rounding of x
    ELSE IF y.m # <<>> /\ x.m # <<>> /\ Top(y) - Top(x) > 64 THEN y
    ELSE CHOOSE sum \in
        {Round(IF x.neg = y.neg THEN x.neg
               ELSE IF BCmp(a, b) = 0 THEN FALSE
               ELSE IF BCmp(a, b) > 0 THEN x.neg ELSE y.neg,
               IF x.neg = y.neg THEN BAdd(a, b)
               ELSE IF BCmp(a, b) > 0 THEN BSub(a, b) ELSE BSub(b, a),
               <<1>>, IF x.e <= y.e THEN x.e ELSE y.e)
         : a \in {BShl(x.m, x.e - (IF x.e <= y.e THEN x.e ELSE y.e))},
           b \in {BShl(y.m, y.e - (IF x.e <= y.e THEN x.e ELSE y.e))}} : TRUE

\* x - y
sub(x, y) == add(x, [y EXCEPT !.neg = ~y.neg])

\* x * y
mul(x, y) ==
    IF x.kind = "nan" \/ y.kind = "nan" THEN NotANumber
    ELSE IF x.kind = "inf" \/ y.kind = "inf"
    THEN (IF (x.kind = "num" /\ x.m = <<>>) \/ (y.kind = "num" /\ y.m = <<>>)
          THEN NotANumber
          ELSE IF x.neg # y.neg THEN NegInf ELSE Inf)
    ELSE Round(x.neg # y.neg, BMul(x.m, y.m), <<1>>, x.e + y.e)

IsZero(x) == x.kind = "num" /\ x.m = <<>>

\* x / y: [exc, value]
truediv(x, y, numpy) ==
    IF IsZero(y) /\ ~numpy THEN [exc |-> "ZeroDivisionError", value |-> NotANumber]
    ELSE [exc |-> "None",
          value |->
            IF x.kind = "nan" \/ y.kind = "nan" THEN NotANumber
            ELSE IF x.kind = "inf"
            THEN (IF y.kind = "inf" THEN NotANumber
                  ELSE IF x.neg # y.neg THEN NegInf ELSE Inf)
            ELSE IF y.kind = "inf" THEN Zero(x.neg # y.neg)
            ELSE IF IsZero(y)
            THEN (IF IsZero(x) THEN NotANumber
                  ELSE IF x.neg # y.neg THEN NegInf ELSE Inf)
            ELSE Round(x.neg # y.neg, x.m, y.m, x.e - y.e)]

\* x < y; every comparison with nan is False
lt(x, y) ==
    /\ x.kind # "nan" /\ y.kind # "nan"
    /\ IF x.kind = "inf" THEN x.neg /\ ~(y.kind = "inf" /\ y.neg)
       ELSE IF y.kind = "inf" THEN ~y.neg
       ELSE IF IsZero(x) /\ IsZero(y) THEN FALSE
       ELSE IF x.neg # y.neg THEN x.neg
       ELSE IF x.neg THEN CmpAbs(x, y) > 0
       ELSE CmpAbs(x, y) < 0

ge(x, y) == x.kind # "nan" /\ y.kind # "nan" /\ ~lt(x, y)

------------------------------------------------------------------------------
(* plan_target_cgpa *)

\* possible_grades = ['S', 'A', 'B', 'C', 'D', 'E', 'F']
possible_grades == <<"S", "A", "B", "C", "D", "E", "F">>

\* calculator.grade_points.get(grade, 0)
gp_of(grade) == dict_get(grade_points, grade, 0)

\* product(possible_grades, repeat=k) for k >= 0: the last position runs fastest
RECURSIVE product(_)
product(k) ==
    IF k = 0 THEN << <<>> >>
    ELSE LET shorter == product(k - 1)
             m == Len(possible_grades)
         IN  [i \in 1..(Len(shorter) * m) |->
                Append(shorter[((i - 1) \div m) + 1], possible_grades[((i - 1) % m) + 1])]

\* the credits typed for the courses or groups, read in order:
\* [ok, credits, total_future_credits]; ok is FALSE when float() raised.
\* total_future_credits starts at 0 and each credit is added to it in turn.
RECURSIVE read_credits(_)
read_credits(texts) ==
    IF texts = <<>> THEN [ok |-> TRUE, credits |-> <<>>, total |-> FromInt(0)]
    ELSE CHOOSE read \in
        {IF ~earlier.ok \/ ~c.ok THEN [ok |-> FALSE, credits |-> <<>>, total |-> FromInt(0)]
         ELSE [ok |-> TRUE,
               credits |-> Append(earlier.credits, c.value),
               total |-> add(earlier.total, c.value)]
         : earlier \in {read_credits(SubSeq(texts, 1, Len(texts) - 1))},
           c \in {float(texts[Len(texts)])}} : TRUE

\* future_points = 0, then future_points += credits * gp over zip(groups, combo)
RECURSIVE future_points(_, _)
future_points(credits, combo) ==
    LET n == IF Len(credits) <= Len(combo) THEN Len(credits) ELSE Len(combo)
    IN  IF n = 0 THEN FromInt(0)
        ELSE add(future_points(SubSeq(credits, 1, n - 1), SubSeq(combo, 1, n - 1)),
                 mul(credits[n], FromInt(gp_of(combo[n]))))

\* if projected_cgpa >= target
reaches(projected_cgpa, target) == ge(projected_cgpa, target)

\* the place of a float in the order of the floats, as numbers TLC compares:
\* its sign, then the exponent of its top bit and its 53 bits in two halves.
\* No NaN is ever sorted: NaN >= target is False.
order_key(x) ==
    LET bits == BShl(x.m, 53 - BBitLen(x.m))
    IN  IF x.kind = "inf" THEN <<IF x.neg THEN -1 ELSE 1, 2^15, 0, 0>>
        ELSE IF x.m = <<>> THEN <<0, 0, 0, 0>>
        ELSE <<IF x.neg THEN -1 ELSE 1, Top(x), bits[4] * Base + bits[3], bits[2] * Base + bits[1]>>

\* the float of key a is below the float of key b
key_lt(a, b) ==
    LET i == CHOOSE k \in 1..4 : a[k] # b[k]
    IN  /\ a # b
        /\ IF i = 1 THEN a[1] < b[1]
           ELSE IF a[1] < 0 THEN a[i] > b[i]
           ELSE a[i] < b[i]

\* the place of every entry of the list after a stable sort by its key
stable_rank(keys) ==
    CHOOSE rank \in {[i \in DOMAIN k |->
                        1 + Cardinality({j \in DOMAIN k : \/ key_lt(k[j], k[i])
                                                          \/ j < i /\ ~key_lt(k[i], k[j])})]
                     : k \in {keys}} : TRUE

\* the list with every entry at its place
placed(list, rank) ==
    CHOOSE sorted \in {[r \in DOMAIN l |-> l[CHOOSE i \in DOMAIN l : at[i] = r]]
                       : l \in {list}, at \in {rank}} : TRUE

\* valid_combinations.sort(key=lambda x: x[1]): a stable sort
sort_by_cgpa(list) ==
    CHOOSE sorted \in {placed(l, stable_rank([i \in DOMAIN l |-> order_key(l[i].cgpa)]))
                       : l \in {list}} : TRUE

\* what one call of plan_target_cgpa shows: the exception that ended it ("None"
\* for a return), the error line printed, the required average reported, the
\* projected CGPA of every combination the loop went through, the table of
\* valid combinations and the projected CGPA of the predicted grades
NoReport ==
    [exc |-> "None", says |-> "", required_avg |-> <<>>, projections |-> <<>>,
     valid_combinations |-> <<>>, projected_cgpa |-> <<>>]

\* required_future_points / total_future_credits
required_average(target, current_total_credits, current_total_points, total, numpy) ==
    truediv(sub(mul(target, add(FromInt(current_total_credits), total)),
                FromInt(current_total_points)),
            total, numpy)

\* (current_total_points + future_points) / (current_total_credits + total_future_credits)
projected(current_total_credits, current_total_points, total, points, numpy) ==
    truediv(add(FromInt(current_total_points), points),
            add(FromInt(current_total_credits), total), numpy)

\* mode "1", course by course, after the required average
predict_grades(current_total_credits, current_total_points, numpy, inp, read, report) ==
    IF lower(strip(inp.simulate)) # <<"y">> THEN report
    ELSE LET grades == [i \in DOMAIN read.credits |-> upper(strip(inp.grades[i]))]
             symbols == [i \in DOMAIN grades |->
                            IF Len(grades[i]) = 1 THEN grades[i][1] ELSE "?"]
         IN  CHOOSE shown \in
                {IF q.exc # "None" THEN [report EXCEPT !.exc = q.exc]
                 ELSE [report EXCEPT !.projected_cgpa = <<q.value>>]
                 : q \in {projected(current_total_credits, current_total_points, read.total,
                                    future_points(read.credits, symbols), numpy)}} : TRUE

\* one pass of the loop over the combinations: the combination, its projected
\* CGPA and the exception of the division
loop_pass(combo, q) == [combo |-> combo, cgpa |-> q.value, exc |-> q.exc]

\* for combo in product(possible_grades, repeat=num_groups): every pass
loop_passes(current_total_credits, current_total_points, numpy, read, combos) ==
    CHOOSE passes \in
        {[i \in DOMAIN c |->
            loop_pass(c[i], projected(current_total_credits, current_total_points, rd.total,
                                      future_points(rd.credits, c[i]), numpy))]
         : c \in {combos}, rd \in {read}} : TRUE

\* the table, or the line printed when no combination is valid
tabulate(report, all, valid) ==
    CHOOSE shown \in
        {IF v # <<>>
         THEN [report EXCEPT !.projections = all, !.valid_combinations = sort_by_cgpa(v)]
         ELSE [report EXCEPT !.projections = all, !.says = "No valid grade combination found"]
         : v \in {valid}} : TRUE

\* the loop, left at the first pass whose division raised
loop_over(report, target, passes) ==
    CHOOSE shown \in
        {LET all == [i \in DOMAIN p |-> [combo |-> p[i].combo, cgpa |-> p[i].cgpa]]
         IN  IF \E i \in DOMAIN p : p[i].exc # "None"
             THEN [report EXCEPT !.exc = p[1].exc]
             ELSE tabulate(report, all, SelectSeq(all, LAMBDA x : reaches(x.cgpa, t)))
         : p \in {passes}, t \in {target}} : TRUE

\* mode "2", aggregate mode, after the required average
enumerate_groups(current_total_credits, current_total_points, numpy, target, num_groups, read, report) ==
    IF num_groups < 0 THEN [report EXCEPT !.exc = "ValueError"]   \* product(..., repeat < 0)
    ELSE loop_over(report, target,
                   loop_passes(current_total_credits, current_total_points, numpy, read,
                               product(num_groups)))

\* plan_target_cgpa(calculator, current_total_credits, current_total_points) on
\* the console input inp = [target, mode, count, credits, simulate, grades];
\* numpy tells whether the two sums are numpy scalars
plan_target_cgpa(current_total_credits, current_total_points, numpy, inp) ==
    LET target == float(inp.target)
        mode == strip(inp.mode)
        n == int(inp.count)
        texts == SubSeq(inp.credits, 1, IF n.ok /\ n.value > 0 THEN n.value ELSE 0)
    IN  IF ~target.ok THEN [NoReport EXCEPT !.says = "Invalid target CGPA."]
        ELSE IF mode \notin {<<"1">>, <<"2">>}
        THEN [NoReport EXCEPT !.says = "Invalid mode selected."]
        ELSE IF ~n.ok THEN [NoReport EXCEPT !.says = "Invalid number."]
        ELSE CHOOSE shown \in
            {IF ~read.ok
             THEN [NoReport EXCEPT !.says = IF mode = <<"1">> THEN "Invalid credits entered."
                                             ELSE "Invalid credits."]
             ELSE IF avg.exc # "None" THEN [NoReport EXCEPT !.exc = avg.exc]
             ELSE IF mode = <<"1">>
             THEN predict_grades(current_total_credits, current_total_points, numpy, inp, read,
                                 [NoReport EXCEPT !.required_avg = <<avg.value>>])
             ELSE enumerate_groups(current_total_credits, current_total_points, numpy,
                                   target.value, n.value, read,
                                   [NoReport EXCEPT !.required_avg = <<avg.value>>])
             : read \in {read_credits(texts)},
               avg \in {required_average(target.value, current_total_credits,
                                         current_total_points, read_credits(texts).total,
                                         numpy)}} : TRUE

------------------------------------------------------------------------------
(* The planner as a function of its arguments and of the console input *)

\* the two sums of the ledger: current_total_credits, current_total_points
Ledgers == {<<20, 180>>, <<0, 0>>, <<-2, -18>>}

TargetTexts == {<<"9", ".", "5">>, <<"9">>, <<"8">>, <<"6">>, <<"x">>}
ModeTexts == {<<"1">>, <<"2", " ">>, <<"3">>}
CountTexts == {<<"x">>, <<"-", "1">>} \cup {<<Digits[k + 1]>> : k \in 0..MaxGroups}
CreditTexts == {<<"4">>, <<"0">>, <<"-", "4">>, <<"1", ".", "5">>, <<"0", ".", "7">>, <<"x">>}
GradeTexts == {<<"s">>, <<"F", " ">>, <<"x">>}

\* the lines typed at the prompts of one call
ConsoleInput(target, mode, count, credits, simulate, grades) ==
    [target |-> target, mode |-> mode, count |-> count, credits |-> credits,
     simulate |-> simulate, grades |-> grades]

\* the number of credit prompts after the count typed
Prompts(count) == IF int(count).ok /\ int(count).value > 0 THEN int(count).value ELSE 0

InitPlan ==
    /\ raw_df = <<>>
    /\ pc = "plan"
    /\ prepared = NoFrame
    /\ deduped = <<>>
    /\ clean_df = NoFrame
    /\ current_cgpa = NoCgpa
    /\ original_dist = <<>>
    /\ heap = <<>> /\ env = NoEnv /\ session = NoSession
    /\ \E ledger \in Ledgers, numpy \in BOOLEAN, target \in TargetTexts, mode \in ModeTexts,
          count \in CountTexts :
        \E credits \in [1..Prompts(count) -> CreditTexts] :
            \E inp \in {ConsoleInput(target, mode, count, credits, <<"n">>, <<>>)}
                   \cup {ConsoleInput(target, mode, count, credits, <<"Y", " ">>, g) :
                            g \in IF mode = <<"1">> THEN [1..Prompts(count) -> GradeTexts]
                                  ELSE {}} :
                call = [fn |-> "plan?", current_total_credits |-> ledger[1],
                        current_total_points |-> ledger[2], numpy |-> numpy, inp |-> inp]

PlanTargetCgpa ==
    /\ call.fn = "plan?"
    /\ call' = [fn |-> "plan_target_cgpa",
                current_total_credits |-> call.current_total_credits,
                current_total_points |-> call.current_total_points,
                numpy |-> call.numpy, inp |-> call.inp,
                result |-> plan_target_cgpa(call.current_total_credits,
                                            call.current_total_points, call.numpy, call.inp)]
    /\ UNCHANGED <<raw_df, pc, prepared, deduped, clean_df, current_cgpa, original_dist>>
    /\ UNCHANGED menu_vars

NextPlan == PlanTargetCgpa

SpecPlan == InitPlan /\ [][NextPlan]_vars

------------------------------------------------------------------------------
(* main(): the main menu and the two interactive simulators *)

\* the extracted tables the menus are reached from: courses graded A (4
\* credits) and P (2), courses graded B (4) and S (3), and a table without rows
MenuTables == {Table(1, <<2, 6>>), Table(1, <<1, 3>>), Table(1, <<>>)}

\* the lines typed in a simulator: grades, and credits that are whole numbers
FromTexts == {<<"a">>, <<"b", " ">>}
ToTexts == {<<"s">>}
FutureTexts == {<<"s">>, <<"p">>}
AmountTexts == {<<"1">>, <<"x">>}

\* the lines typed in the planner, as main() reaches it
MenuPlanInputs ==
    { ConsoleInput(<<"9">>, <<"2">>, <<"1">>, <<<<"4">>>>, <<"n">>, <<>>),
      ConsoleInput(<<"9">>, <<"2">>, <<"-", "1">>, <<>>, <<"n">>, <<>>),
      ConsoleInput(<<"x">>, <<"2">>, <<"0">>, <<>>, <<"n">>, <<>>) }

\* input(...).upper().strip(), for lines of one character at most once stripped
typed_grade(text) ==
    LET grade == strip(upper(text)) IN IF Len(grade) = 1 THEN grade[1] ELSE ""

\* float(input(...)) for a line that is a whole number: the number
typed_credits(text) == ToInt(float(text).value)

InitMenu ==
    /\ raw_df \in MenuTables
    /\ pc = "extracted"
    /\ prepared = NoFrame
    /\ deduped = <<>>
    /\ clean_df = NoFrame
    /\ current_cgpa = NoCgpa
    /\ original_dist = <<>>
    /\ call = NoCall
    /\ heap = <<>> /\ env = NoEnv /\ session = NoSession

\* a menu step that only prints
Says(kind) ==
    /\ session' = [session EXCEPT !.said = kind]
    /\ UNCHANGED <<raw_df, pc, prepared, deduped, clean_df, current_cgpa, original_dist,
                   call, heap, env>>

\* the callee is through with the dict it was given; an uncaught exception ends main()
Crash(arg, outcome, chain) ==
    /\ pc' = "crash"
    /\ heap' = [heap EXCEPT ![arg] = outcome.distribution]
    /\ session' = [session EXCEPT !.chain = chain, !.said = outcome.exc]
    /\ UNCHANGED <<raw_df, prepared, deduped, clean_df, current_cgpa, original_dist, call,
                   env>>

\* choice "1": simulate_grade_improvement(calculator, original_dist, current_cgpa)
Choice1 ==
    /\ pc = "menu"
    /\ pc' = "improve"
    /\ session' = [chain |-> <<>>, arg |-> env.original_dist, original_cgpa |-> current_cgpa,
                   said |-> "menu"]
    /\ UNCHANGED <<raw_df, prepared, deduped, clean_df, current_cgpa, original_dist, call,
                   heap, env>>

\* simulate_grade_improvement, choice "1": the entry is appended, then the chain simulated
ImproveAdd ==
    /\ pc = "improve"
    /\ \E from_text \in FromTexts, to_text \in ToTexts, credits_text \in AmountTexts :
        IF ~float(credits_text).ok THEN Says("Error: float")
        ELSE /\ Len(session.chain) < MaxChain
             /\ LET improvement_changes ==
                        Append(session.chain, <<typed_grade(from_text), typed_grade(to_text),
                                                typed_credits(credits_text)>>)
                    r == simulate_and_print(heap[session.arg], improvement_changes,
                                            session.original_cgpa)
                IN  IF r.exc \notin {"None", "ValueError"}
                    THEN Crash(session.arg, r, improvement_changes)
                    ELSE /\ heap' = [heap EXCEPT ![session.arg] = r.distribution]
                         /\ session' = [session EXCEPT
                                !.chain = improvement_changes,
                                !.said = IF r.exc = "None" THEN "added" ELSE "Error: rejected"]
                         /\ UNCHANGED <<raw_df, pc, prepared, deduped, clean_df, current_cgpa,
                                        original_dist, call, env>>

\* choice "2": the chain is shown
ImproveView ==
    /\ pc = "improve"
    /\ Says(IF session.chain # <<>> THEN "chain" ELSE "no changes yet")

\* choice "3": improvement_changes.clear()
ImproveReset ==
    /\ pc = "improve"
    /\ session' = [session EXCEPT !.chain = <<>>, !.said = "reset"]
    /\ UNCHANGED <<raw_df, pc, prepared, deduped, clean_df, current_cgpa, original_dist,
                   call, heap, env>>

\* choice "4", and main()'s improved_distribution, current_cgpa = ...
ImproveFinalize ==
    /\ pc = "improve"
    /\ IF session.chain # <<>>
       THEN LET r == simulate_and_print(heap[session.arg], session.chain,
                                        session.original_cgpa)
                e == [env EXCEPT !.improved_distribution = Fresh(env)]
                h == [i \in DOMAIN heap \cup {Fresh(env)} |->
                        IF i = Fresh(env) THEN r.ret.new_distribution
                        ELSE IF i = session.arg THEN r.distribution ELSE heap[i]]
            IN  IF r.exc # "None" THEN Crash(session.arg, r, session.chain)
                ELSE /\ pc' = "menu"
                     /\ env' = e
                     /\ heap' = Collect(h, e)
                     /\ current_cgpa' = r.ret.new_cgpa
                     /\ session' = Idle("finalized")
                     /\ UNCHANGED <<raw_df, prepared, deduped, clean_df, original_dist, call>>
       ELSE /\ pc' = "menu"
            /\ env' = [env EXCEPT !.improved_distribution = session.arg]
            /\ heap' = Collect(heap, env')
            /\ current_cgpa' = session.original_cgpa
            /\ session' = Idle("nothing applied")
            /\ UNCHANGED <<raw_df, prepared, deduped, clean_df, original_dist, call>>

\* any other choice in the simulator
ImproveInvalid == pc = "improve" /\ Says("invalid choice")

\* choice "2": simulate_future_courses(calculator, improved_distribution)
Choice2 ==
    /\ pc = "menu"
    /\ pc' = "future"
    /\ session' = [chain |-> <<>>, arg |-> env.improved_distribution,
                   original_cgpa |-> NoCgpa, said |-> "menu"]
    /\ UNCHANGED <<raw_df, prepared, deduped, clean_df, current_cgpa, original_dist, call,
                   heap, env>>

\* interactive simulate_future_courses, choice "1"
FutureAdd ==
    /\ pc = "future"
    /\ \E grade_text \in FutureTexts, credits_text \in AmountTexts :
        IF ~float(credits_text).ok THEN Says("Error: float")
        ELSE /\ Len(session.chain) < MaxChain
             /\ LET future_changes ==
                        Append(session.chain, <<typed_grade(grade_text),
                                                typed_credits(credits_text)>>)
                    r == simulate_future_courses(heap[session.arg], future_changes)
                IN  IF r.exc \notin {"None", "ValueError"}
                    THEN Crash(session.arg, r, future_changes)
                    ELSE /\ heap' = [heap EXCEPT ![session.arg] = r.distribution]
                         /\ session' = [session EXCEPT
                                !.chain = future_changes,
                                !.said = IF r.exc = "None" THEN "added" ELSE "Error: rejected"]
                         /\ UNCHANGED <<raw_df, pc, prepared, deduped, clean_df, current_cgpa,
                                        original_dist, call, env>>

FutureView ==
    /\ pc = "future"
    /\ Says(IF session.chain # <<>> THEN "chain" ELSE "no changes yet")

FutureReset ==
    /\ pc = "future"
    /\ session' = [session EXCEPT !.chain = <<>>, !.said = "reset"]
    /\ UNCHANGED <<raw_df, pc, prepared, deduped, clean_df, current_cgpa, original_dist,
                   call, heap, env>>

\* choice "4", and main()'s future_distribution = ...
FutureFinalize ==
    /\ pc = "future"
    /\ IF session.chain # <<>>
       THEN LET r == simulate_future_courses(heap[session.arg], session.chain)
                e == [env EXCEPT !.future_distribution = Fresh(env)]
                h == [i \in DOMAIN heap \cup {Fresh(env)} |->
                        IF i = Fresh(env) THEN r.ret
                        ELSE IF i = session.arg THEN r.distribution ELSE heap[i]]
            IN  IF r.exc # "None" THEN Crash(session.arg, r, session.chain)
                ELSE /\ pc' = "menu"
                     /\ env' = e
                     /\ heap' = Collect(h, e)
                     /\ session' = Idle("finalized")
                     /\ UNCHANGED <<raw_df, prepared, deduped, clean_df, current_cgpa,
                                    original_dist, call>>
       ELSE /\ pc' = "menu"
            /\ env' = [env EXCEPT !.future_distribution = session.arg]
            /\ heap' = Collect(heap, env')
            /\ session' = Idle("nothing applied")
            /\ UNCHANGED <<raw_df, prepared, deduped, clean_df, current_cgpa, original_dist,
                           call>>

FutureInvalid == pc = "future" /\ Says("invalid choice")

\* choice "3": visualize_grade_history(clean_df) prints.  Every frame of
\* clean_table_data has a "Date" column (a table without one is given a date
\* range), so the history is printed, and the line graph when a row is graded
\* other than P
Choice3 ==
    /\ pc = "menu"
    /\ Says(IF \E i \in DOMAIN clean_df.rows : clean_df.rows[i].grade # "P"
            THEN "history and line graph"
            ELSE "history, no data for line graph")

\* choice "4": visualize_distribution of one of the three distributions prints
Choice4 ==
    /\ pc = "menu"
    /\ \E sub_choice \in {"1", "2", "3", "x"} :
        LET distribution ==
                CASE sub_choice = "1" -> heap[env.original_dist]
                  [] sub_choice = "2" -> heap[env.improved_distribution]
                  [] sub_choice = "3" -> heap[env.future_distribution]
                  [] OTHER -> <<>>
        IN  Says(IF sub_choice = "x" THEN "invalid choice"
                 ELSE IF distribution = <<>> THEN "no data to visualize"
                 ELSE "distribution")

\* choice "5": plan_target_cgpa(calculator, current_total_credits, current_total_points)
Choice5 ==
    /\ pc = "menu"
    /\ \E inp \in MenuPlanInputs :
        LET r == plan_target_cgpa(env.current_total_credits, env.current_total_points,
                                  TRUE, inp)
        IN  IF r.exc = "None" THEN Says("planned")
            ELSE /\ pc' = "crash"
                 /\ session' = [session EXCEPT !.said = r.exc]
                 /\ UNCHANGED <<raw_df, prepared, deduped, clean_df, current_cgpa,
                                original_dist, call, heap, env>>

\* choice "6"
Choice6 ==
    /\ pc = "menu"
    /\ pc' = "exit"
    /\ session' = [session EXCEPT !.said = "exit"]
    /\ UNCHANGED <<raw_df, prepared, deduped, clean_df, current_cgpa, original_dist, call,
                   heap, env>>

ChoiceInvalid == pc = "menu" /\ Says("invalid choice")

NextMenu ==
    \/ CleanTableData \/ PrintAnalysis
    \/ Choice1 \/ ImproveAdd \/ ImproveView \/ ImproveReset \/ ImproveFinalize
    \/ ImproveInvalid
    \/ Choice2 \/ FutureAdd \/ FutureView \/ FutureReset \/ FutureFinalize \/ FutureInvalid
    \/ Choice3 \/ Choice4 \/ Choice5 \/ Choice6 \/ ChoiceInvalid

SpecMenu == InitMenu /\ [][NextMenu]_vars

------------------------------------------------------------------------------
(* What the specification says of a conversion, stated apart from the code *)

\* the sum of the function f over the finite set S
RECURSIVE SumOver(_, _)
SumOver(S, f) ==
    IF S = {} THEN 0 ELSE LET x == CHOOSE y \in S : TRUE IN f[x] + SumOver(S \ {x}, f)

Total(d) == SumOver(DOMAIN d, d)

\* both grades recognized, creditAmount > 0, distribution[fromGrade] >= creditAmount
ConversionAllowed(d, op) ==
    /\ op[1] \in DOMAIN grade_points
    /\ op[2] \in DOMAIN grade_points
    /\ op[3] > 0
    /\ (IF op[1] \in DOMAIN d THEN d[op[1]] ELSE 0) >= op[3]

\* subtract the amount from fromGrade, add it to toGrade
Converted(d, op) ==
    [g \in DOMAIN d \cup {op[2]} |->
        (IF g \in DOMAIN d THEN d[g] ELSE 0)
        - (IF g = op[1] THEN op[3] ELSE 0) + (IF g = op[2] THEN op[3] ELSE 0)]

\* some operation of the batch violates its precondition on the distribution
\* as changed by the operations before it
RECURSIVE BatchViolates(_, _)
BatchViolates(d, ops) ==
    IF ops = <<>> THEN FALSE
    ELSE IF ~ConversionAllowed(d, Head(ops)) THEN TRUE
    ELSE BatchViolates(Converted(d, Head(ops)), Tail(ops))

AdditionAllowed(op) == op[1] \in DOMAIN grade_points /\ op[2] > 0

Improved == call.fn = "simulate_improvement"
Added == call.fn = "simulate_future_courses"

------------------------------------------------------------------------------
(* Simulators: C1..C6, under SpecSim *)

\* C1: whenever simulate_improvement returns, the credits of the returned
\* distribution sum to the credits of the distribution it was given.
C1_Conservation ==
    (Improved /\ call.result.exc = "None")
        => Total(call.result.ret) = Total(call.distribution)

\* a batch of two conversions with positive amounts that returned a changed distribution
C1_Witness ==
    /\ Improved
    /\ call.result.exc = "None"
    /\ Len(call.changes) = 2
    /\ \A i \in DOMAIN call.changes : call.changes[i][3] > 0
    /\ call.result.ret # call.distribution

\* C2: a batch with an operation that violates its precondition raises the
\* invalid-conversion error (ValueError) and leaves the caller's distribution
\* as it was.
C2_AllOrNothing ==
    (Improved /\ BatchViolates(call.distribution, call.changes))
        => /\ call.result.exc = "ValueError"
           /\ call.result.distribution = call.distribution

\* C3: from a distribution without negative values, neither simulator returns
\* a distribution with a negative value.
C3_NonNegative ==
    ((Improved \/ Added)
        /\ call.result.exc = "None"
        /\ \A g \in DOMAIN call.distribution : call.distribution[g] >= 0)
        => \A g \in DOMAIN call.result.ret : call.result.ret[g] >= 0

\* C4: simulate_improvement raises ValueError exactly when some operation has an
\* unrecognized grade, an amount <= 0 or too few credits in fromGrade, and
\* returns otherwise; it raises nothing else.
C4_Rejects ==
    Improved
        => IF BatchViolates(call.distribution, call.changes)
           THEN call.result.exc = "ValueError"
           ELSE call.result.exc = "None"

\* C5: simulate_future_courses raises the invalid-addition error (ValueError) on
\* every batch holding an addition with an unrecognized grade or an amount <= 0.
C5_RejectsAddition ==
    (Added /\ \E i \in DOMAIN call.changes : ~AdditionAllowed(call.changes[i]))
        => call.result.exc = "ValueError"

\* C6: when simulate_future_courses returns from a non-empty batch, the credits of
\* the returned distribution sum to more than those of the distribution given.
C6_StrictIncrease ==
    (Added /\ call.changes # <<>> /\ call.result.exc = "None")
        => Total(call.result.ret) > Total(call.distribution)

------------------------------------------------------------------------------
(* clean_table_data of both files and the ledger: C7..C10, under Spec *)

Cleaned == pc \in {"cleaned", "menu", "cleaned_main", "simulator_main"}
Analysed == pc \in {"menu", "simulator_main"}

\* the rows that reach the deduplication, in input order
Entrants == prepared.rows
\* clean_table_data read the dates of a column of the table ("Date"; in
\* main_advanced.py also "Result Declared On")
Dated == prepared.dated

Survives(r) == \E k \in DOMAIN deduped : deduped[k] = r
Group(r) == {x \in Range(Entrants) : x.normalized_title = r.normalized_title}

\* the row y is dated after the row x; a row whose date could not be read
\* (NaT) is dated after no row and has every dated row after it
After(y, x) == ~y.Date.nat /\ (x.Date.nat \/ y.Date.day > x.Date.day)

\* of the rows of one normalized title one survives, and it has the latest date
OneLatestSurvives(r) ==
    /\ Cardinality({x \in Group(r) : Survives(x)}) = 1
    /\ \A x, y \in Group(r) : (Survives(x) /\ Dated) => ~After(y, x)

\* C7: of the rows that share a normalized title exactly one survives
\* the deduplication: the later-dated one in a table with a date column, the
\* one that comes EARLIER in input order in a table without.
C7_EarlierSurvives ==
    Cleaned => \A r \in Range(Entrants) :
        /\ OneLatestSurvives(r)
        /\ \A x, y \in Group(r) : (Survives(x) /\ ~Dated) => x.index <= y.index

\* C8: every record clean_table_data returns has credits > 0 and a grade of
\* {S,A,B,C,D,E,F,P}.
C8_PositiveCredits ==
    (Cleaned /\ clean_df.ok)
        => \A i \in DOMAIN clean_df.rows :
            clean_df.rows[i].credits > 0 /\ clean_df.rows[i].grade \in valid_grades

CreditsAt(g) ==
    SumOver({i \in DOMAIN clean_df.rows : clean_df.rows[i].grade = g},
            [i \in DOMAIN clean_df.rows |-> clean_df.rows[i].credits])

\* C9 as stated: every grade of {S,A,B,C,D,E,F,P} whose credits over all records
\* are positive has an entry with that sum, P included.
C9_WithP ==
    Analysed => \A g \in valid_grades :
        CreditsAt(g) > 0 => (g \in DOMAIN original_dist /\ original_dist[g] = CreditsAt(g))

\* C9 as amended: the distribution has an entry, with that sum, for exactly the
\* grades of {S,A,B,C,D,E,F} whose credits over all records are positive; records
\* graded P are not counted and P has no entry.
C9_WithoutP ==
    Analysed =>
        /\ DOMAIN original_dist = {g \in valid_grades \ {"P"} : CreditsAt(g) > 0}
        /\ \A g \in DOMAIN original_dist : original_dist[g] = CreditsAt(g)

\* records graded P with credits, beside records of other grades
C9_Witness ==
    /\ pc = "menu"
    /\ CreditsAt("P") > 0
    /\ original_dist # <<>>
    /\ "P" \notin DOMAIN original_dist

\* C10: calculate_current_cgpa returns the credit-weighted mean of the grade
\* points of the records not graded P, and 0.0 when their credits sum to zero.
C10_WeightedMean ==
    Analysed =>
        LET counted == {i \in DOMAIN clean_df.rows : clean_df.rows[i].grade # "P"}
            credits == SumOver(counted, [i \in counted |-> clean_df.rows[i].credits])
            points == SumOver(counted, [i \in counted |->
                        clean_df.rows[i].credits * grade_points[clean_df.rows[i].grade]])
        IN  IF credits = 0 THEN current_cgpa.num = 0
            ELSE current_cgpa.num * credits = points * current_cgpa.den

------------------------------------------------------------------------------
(* Header detection: C11, under Spec *)

\* the rows of the extracted table that hold both labels among their cells
HeaderRows ==
    {i \in DOMAIN raw_df :
        IsIn(s_CourseCode, row_values(raw_df[i])) /\ IsIn(s_Grade, row_values(raw_df[i]))}

\* the record rec reads the cells of row j under the labels of row h
FromRow(rec, h, j) ==
    LET headers == row_values(raw_df[h])
    IN  /\ rec.course_code = strip(raw_df[j][column(headers, s_CourseCode)])
        /\ rec.Course_Title = raw_df[j][column(headers, s_CourseTitle)]
        /\ <<rec.grade>> = raw_df[j][column(headers, s_Grade)]

\* C11: the header is the first row, in input order, that holds both a
\* "Course Code" and a "Grade" cell, and every record is read from a row below
\* it under its labels; when no row holds both labels the cleaning fails and
\* returns no record sequence at all, neither an empty nor a partial one.
C11_FirstHeader ==
    pc # "extracted" =>
        IF HeaderRows = {}
        THEN pc = "failed" /\ ~clean_df.ok /\ clean_df.rows = <<>>
        ELSE clean_df.ok =>
                \A i \in DOMAIN clean_df.rows :
                    \E j \in (Min(HeaderRows) + 1)..Len(raw_df) :
                        FromRow(clean_df.rows[i], Min(HeaderRows), j)

\* a table whose header is its second row, under a row that reads like a
\* course row, and that gave records
C11_Witness ==
    /\ pc = "cleaned"
    /\ Min(HeaderRows) = 2
    /\ raw_df[1] = Stray
    /\ clean_df.rows # <<>>

------------------------------------------------------------------------------
(* The target planner: C12..C15, under SpecPlan *)

Planned == call.fn = "plan_target_cgpa"

\* the call got a target, a mode, a count and credits it could read
PlanInputValid ==
    /\ Planned
    /\ float(call.inp.target).ok
    /\ strip(call.inp.mode) \in {<<"1">>, <<"2">>}
    /\ int(call.inp.count).ok
    /\ \A i \in 1..Prompts(call.inp.count) : float(call.inp.credits[i]).ok

\* the aggregate mode ran to its end
Enumerated ==
    PlanInputValid /\ strip(call.inp.mode) = <<"2">> /\ call.result.exc = "None"

\* Exact fractions num/den, den > 0, in lowest terms: the numbers typed and
\* the values the claims' formulas give for them
RECURSIVE Gcd(_, _)
Gcd(x, y) == IF y = 0 THEN x ELSE Gcd(y, x % y)

Ratio(n, d) ==
    LET g == Gcd(IF n < 0 THEN -n ELSE n, IF d < 0 THEN -d ELSE d)
        sign == IF d < 0 THEN -1 ELSE 1
    IN  [num |-> sign * (n \div g), den |-> sign * (d \div g)]

RatAdd(x, y) == Ratio(x.num * y.den + y.num * x.den, x.den * y.den)
RatSub(x, y) == Ratio(x.num * y.den - y.num * x.den, x.den * y.den)
RatMul(x, y) == Ratio(x.num * y.num, x.den * y.den)
RatDiv(x, y) == Ratio(x.num * y.den, x.den * y.num)

\* the number written by a text of digits with a sign and a decimal point
Typed(text) == Ratio(to_numeric(strip(text)).num, to_numeric(strip(text)).den)

\* the sum of the fractions f[i], i in S
RECURSIVE RatSum(_, _)
RatSum(S, f) ==
    IF S = {} THEN Ratio(0, 1)
    ELSE LET i == CHOOSE x \in S : TRUE IN RatAdd(f[i], RatSum(S \ {i}, f))

\* -1, 0 or 1 as the finite float x is below, at or above the fraction r
CmpFloat(x, r) ==
    LET sx == IF x.m = <<>> THEN 0 ELSE IF x.neg THEN -1 ELSE 1
        sr == IF r.num = 0 THEN 0 ELSE IF r.num < 0 THEN -1 ELSE 1
        p == BInt(IF r.num < 0 THEN -r.num ELSE r.num)
        q == BInt(r.den)
        left == BMul(IF x.e >= 0 THEN BShl(x.m, x.e) ELSE x.m, q)
        right == IF x.e >= 0 THEN p ELSE BShl(p, -x.e)
    IN  IF sx # sr THEN (IF sx < sr THEN -1 ELSE 1) ELSE sx * BCmp(left, right)

\* the float x is the fraction r as the planner prints it: within 0.001
Near(x, r) ==
    /\ x.kind = "num"
    /\ CmpFloat(x, RatSub(r, Ratio(1, 1000))) >= 0
    /\ CmpFloat(x, RatAdd(r, Ratio(1, 1000))) <= 0

TargetCGPA == Typed(call.inp.target)
Buckets == [i \in 1..Prompts(call.inp.count) |-> Typed(call.inp.credits[i])]

BucketTotal == RatSum(DOMAIN Buckets, Buckets)
NewCredits == RatAdd(Ratio(call.current_total_credits, 1), BucketTotal)
NewPoints(a) ==
    RatAdd(Ratio(call.current_total_points, 1),
           RatSum(DOMAIN Buckets, [i \in DOMAIN Buckets |->
                                      RatMul(Buckets[i], Ratio(grade_points[a[i]], 1))]))

\* NewPoints(a) / NewCredits >= TargetCGPA, without dividing
Sufficient(a) ==
    LET slack == RatSub(NewPoints(a), RatMul(TargetCGPA, NewCredits))
    IN  IF NewCredits.num > 0 THEN slack.num >= 0 ELSE slack.num <= 0

Assignments == [DOMAIN Buckets -> Range(possible_grades)]
Retained == {call.result.valid_combinations[i].combo :
                i \in DOMAIN call.result.valid_combinations}

\* C12: for k buckets the retained list holds exactly the assignments of
\* {S,A,B,C,D,E,F} to the buckets whose projected CGPA is >= the target, each
\* once and with its projected CGPA, in order of non-decreasing projected CGPA.
C12_ExactlySufficient ==
    (Enumerated /\ NewCredits.num # 0) =>
        LET list == call.result.valid_combinations
        IN  /\ Retained = {a \in Assignments : Sufficient(a)}
            /\ Len(list) = Cardinality(Retained)
            /\ \A i \in DOMAIN list :
                    Near(list[i].cgpa, RatDiv(NewPoints(list[i].combo), NewCredits))
            /\ \A i, j \in DOMAIN list : i < j => ~lt(list[j].cgpa, list[i].cgpa)

\* C13: the planner reports requiredAverage = (target * (currentTotalCredits +
\* bucket credits) - currentTotalPoints) / bucket credits, and whenever that
\* value exceeds the maximum grade point 10 no assignment is retained; for 20
\* credits, 180 points, target 9.5 and one bucket of 4 it reports 12.0.
C13_RequiredAverage ==
    (PlanInputValid /\ call.result.required_avg # <<>>) =>
        LET avg == call.result.required_avg[1]
        IN  /\ BucketTotal.num # 0 =>
                    Near(avg, RatDiv(RatSub(RatMul(TargetCGPA, NewCredits),
                                            Ratio(call.current_total_points, 1)),
                                     BucketTotal))
            /\ (Enumerated /\ lt(FromInt(10), avg)) => call.result.valid_combinations = <<>>

\* the projected CGPA the loop computed for the assignment a
ProjectedOf(a) ==
    LET i == CHOOSE k \in DOMAIN call.result.projections :
                    call.result.projections[k].combo = a
    IN  call.result.projections[i].cgpa

\* a and b differ in bucket i only, where a has the higher grade
RaisedIn(a, b, i) ==
    /\ \A k \in DOMAIN Buckets : k # i => a[k] = b[k]
    /\ grade_points[a[i]] > grade_points[b[i]]

AllS == [i \in DOMAIN Buckets |-> "S"]

\* C14: for every list of buckets the planner accepts, of two assignments that
\* differ in one bucket the one with the higher grade there has a projected
\* CGPA >= the other's; and when the all-S assignment does not reach the
\* target, no assignment is retained.
C14_Monotone ==
    Enumerated =>
        /\ \A a, b \in Assignments : \A i \in DOMAIN Buckets :
                RaisedIn(a, b, i) => ge(ProjectedOf(a), ProjectedOf(b))
        /\ ~ge(ProjectedOf(AllS), float(call.inp.target).value)
                => call.result.valid_combinations = <<>>

\* C15: when the bucket credits sum to zero the planner fails with the
\* division-guard error and reports neither a required average nor any
\* assignment.
C15_DivisionGuard ==
    (PlanInputValid /\ BucketTotal.num = 0) =>
        /\ call.result.exc = "ZeroDivisionError"
        /\ call.result.required_avg = <<>>
        /\ call.result.valid_combinations = <<>>

------------------------------------------------------------------------------
(* Order within a batch: C16, under SpecSim *)

\* the distribution after the conversions ops, one after the other
RECURSIVE RunningAfter(_, _)
RunningAfter(d, ops) ==
    IF ops = <<>> THEN d ELSE RunningAfter(Converted(d, Head(ops)), Tail(ops))

\* fromGrade holds fewer credits than the amount
Shortage(d, op) == op[3] > (IF op[1] \in DOMAIN d THEN d[op[1]] ELSE 0)

Chained == call.fn \in {"simulate_improvement", "simulate_and_print"}

ChainedResult ==
    IF call.fn = "simulate_and_print" THEN call.result.ret.new_distribution
    ELSE call.result.ret

\* C16: the operations of a batch are applied in list order, and each one's
\* 'enough credits in fromGrade' precondition is checked against the
\* distribution as changed by the operations before it: a returning call met
\* every such precondition on the running distribution and returns the last
\* running distribution, and the first shortage on the running distribution
\* raises ValueError.
C16_InOrder ==
    Chained =>
        LET ops == call.changes
            Before(k) == RunningAfter(call.distribution, SubSeq(ops, 1, k - 1))
        IN  /\ call.result.exc = "None" =>
                    /\ \A k \in DOMAIN ops : ~Shortage(Before(k), ops[k])
                    /\ ChainedResult = RunningAfter(call.distribution, ops)
            /\ \A k \in DOMAIN ops :
                    (/\ \A j \in 1..(k - 1) : ConversionAllowed(Before(j), ops[j])
                     /\ ops[k][1] \in DOMAIN grade_points
                     /\ ops[k][2] \in DOMAIN grade_points
                     /\ Shortage(Before(k), ops[k]))
                        => call.result.exc = "ValueError"

\* the example: [(B,A,4),(A,S,14)] on {A:10,B:6} returned, its second operation
\* taking more credits from A than the input distribution holds there
C16_Witness ==
    /\ call.fn = "simulate_improvement"
    /\ call.distribution = [A |-> 10, B |-> 6]
    /\ call.changes = <<<<"B", "A", 4>>, <<"A", "S", 14>>>>
    /\ call.result.exc = "None"
    /\ call.result.ret = [A |-> 0, B |-> 2, S |-> 14]

------------------------------------------------------------------------------
(* Sparse distributions: C17, under SpecSim *)

\* no entry of d has the value zero
Sparse(d) == \A g \in DOMAIN d : d[g] # 0

\* C17: every distribution get_grade_distribution, simulate_improvement or
\* simulate_future_courses produces (from a sparse one) is sparse: no entry has
\* the value zero, also after a conversion that moves all credits of a grade.
C17_Sparse ==
    /\ pc = "menu" => Sparse(original_dist)
    /\ ((Improved \/ Added) /\ call.result.exc = "None" /\ Sparse(call.distribution))
            => Sparse(call.result.ret)

------------------------------------------------------------------------------
(* Rows of one title and one date: C18, under Spec *)

\* C18: in a table with a date column, of the rows of one normalized title
\* that share the latest date of their group the one that survives the
\* deduplication is the earliest in input order.
C18_TieEarliest ==
    (Cleaned /\ Dated) =>
        \A x, y \in Range(Entrants) :
            (/\ x.normalized_title = y.normalized_title
             /\ x.Date = y.Date
             /\ Survives(x))
                => x.index <= y.index

\* C19: in both interactive simulators an entry the simulator rejects is not
\* kept in the pending chain: after a rejected add the chain is the chain
\* before it
C19_RejectedNotKept ==
    [][(pc \in {"improve", "future"} /\ session'.said = "Error: rejected")
            => session'.chain = session.chain]_vars

InMenu == pc \in {"menu", "improve", "future", "exit", "crash"}

\* C20: in the main menu loop, after any sequence of menu choices, original_dist
\* has exactly the entries and values print_analysis computed at startup, and
\* current_total_credits and current_total_points are unchanged
C20_OriginalKept ==
    InMenu =>
        /\ heap[env.original_dist] = get_grade_distribution(clean_df.rows)
        /\ env.current_total_credits = ledger_sums(clean_df.rows).current_total_credits
        /\ env.current_total_points = ledger_sums(clean_df.rows).current_total_points

\* back in the main menu after an improvement session that changed the CGPA, an
\* improvement session finalized empty (improved_distribution is original_dist
\* itself) and a future-courses session that added credits to it
C20_Witness ==
    /\ pc = "menu"
    /\ session.said = "finalized"
    /\ env.improved_distribution = env.original_dist
    /\ heap[env.future_distribution] # heap[env.original_dist]
    /\ current_cgpa.num * calculate_current_cgpa(clean_df.rows).den
            # calculate_current_cgpa(clean_df.rows).num * current_cgpa.den

\* C21: every time the improvement simulator is entered from the main menu,
\* the value passed as its original CGPA is the CGPA computed from the
\* distribution passed as its original distribution
C21_OriginalCgpaOfOriginal ==
    pc = "improve" =>
        session.original_cgpa.num * calculate_cgpa_from_distribution(heap[session.arg]).den
            = calculate_cgpa_from_distribution(heap[session.arg]).num * session.original_cgpa.den

Recognized(r) == \E g \in valid_grades : r.Grade = <<g>>

\* the rows of r's title that no row of the title is dated after
Latest(r) == {x \in Group(r) : \A y \in Group(r) : ~After(y, x)}

\* the records clean_table_data returns for r's title
RecordsOf(r) ==
    {i \in DOMAIN clean_df.rows :
        \E x \in Group(r) : x.index = clean_df.rows[i].index}

\* C22: clean_table_data deduplicates before it filters grades: when the row
\* that wins the deduplication for a normalized title has a grade outside
\* {S,A,B,C,D,E,F,P}, the result holds no record of that title, whatever the
\* grades of the other rows of the title.  The winner is the row the
\* deduplication kept, and it is one of the latest rows of the title.
C22_DedupBeforeFilter ==
    Cleaned => \A r \in Range(Entrants) :
        /\ (Survives(r) /\ ~Recognized(r)) => RecordsOf(r) = {}
        /\ (\A x \in Latest(r) : ~Recognized(x)) => RecordsOf(r) = {}

\* a title whose winning row has an unrecognized grade and which has an earlier
\* row with a recognized grade
C22_Witness ==
    /\ Cleaned
    /\ \E r \in Range(Entrants) :
        /\ Survives(r) /\ ~Recognized(r)
        /\ \A x \in Latest(r) : ~Recognized(x)
        /\ \E y \in Group(r) : Recognized(y) /\ After(r, y)
        /\ RecordsOf(r) = {}

==============================================================================
